---- MODULE Spec2Model ----
(***************************************************************************)
(* Event bus, per-socket connections, browser-side multiplexer, session    *)
(* store and core gateway of GUI.for.SingBox.web, as state machines.       *)
(*                                                                         *)
(*   Spec      the server event bus: emitters, readers, writers, close()   *)
(*   FairSpec  Spec with the scheduler's fairness on runnable goroutines   *)
(*   SubSpec   Spec started with every connection subscribed               *)
(*   PingSpec  FairSpec with a peer that answers no ping                   *)
(*   OnSpec    the handler registry: On, cancel functions, operations      *)
(*   MuxSpec   the page's multiplexer, its sockets and their server end    *)
(*   MuxClosingSpec  MuxSpec started as the page's first socket is closing *)
(*   HttpSpec  the HTTP server: login, logout, middleware, /ws, gateway    *)
(***************************************************************************)
EXTENDS Integers, Sequences, FiniteSets, TLC

(***************************************************************************)
(* Bounds of the model.                                                    *)
(***************************************************************************)
\* capacity of Client.send in the model (64 in the code, see newClient)
QueueCap == 1
\* subscribe, unsubscribe and emit frames the readers decode in one behaviour
MaxFrames == 1
\* Emit calls made in one behaviour
MaxEmits == 2
\* WebSocket objects the page creates in one behaviour
MaxSockets == 3
\* EventsOn, EventsOff, EventsEmit and closeEvents calls in one behaviour
MaxCalls == 2
\* server-side Emit calls towards the page in one behaviour
MaxSrvEmits == 1
\* steps of the clock in one behaviour
MaxTicks == 3
\* Bus.On calls made by server code other than the operations
MaxOns == 2
\* calls of the functions Bus.On returned
MaxCancels == 2
\* Requests, Download and Upload calls in one behaviour
MaxOps == 1
\* /ws requests that ServeWS upgrades in one behaviour
MaxUpgrades == 1
\* connection attempts that have failed in a row when the page is first seen
MaxFails == 4
\* messages the two peers of a tunnel send
MaxTunnelMsgs == 2
\* events a background task emits
MaxTaskEmits == 2

Conns == {"c1", "c2"}
Emitters == {"e1"}
Events == {"x", "y"}
\* payload arrays; the item "func" stands for a value json.Marshal rejects
Payloads == {<<"1", "a">>, <<"func">>}

None == "none"

VARIABLES
    \* Bus
    subscribers,    \* Bus.subscribers: event -> set of clients (keys = DOMAIN)
    mu,             \* Bus.mu: the goroutines holding the read lock
    \* Client
    send,           \* Client.send buffer, per connection
    sendClosed,     \* close(c.send) has run
    closedSig,      \* close(c.closed) has run
    connClosed,     \* c.conn.Close() has run
    events,         \* Client.events
    teardowns,      \* number of times removeClient ran for the connection
    \* goroutines
    pc,             \* position of each connection's reader and writer
    rframe,         \* the frame a reader has decoded and is dispatching
    frames,         \* frames decoded so far (pings apart)
    epc,            \* position of each emitter
    emsg,           \* [event, payload, data] of the emitter's current call
    etodo,          \* clients the range loop has still to visit
    ecur,           \* client whose queue() the emitter is parked in
    ewoken,         \* what woke the call from its last park: "closed", "sent"
    eadded,         \* what the current call has put on each client's queue
    nemits,
    fault,          \* the runtime panic that ended the process, if any
    \* what has happened so far
    elog,           \* the data of the Emit calls that took the lock, in order
    enq,            \* per connection, the messages put on Client.send, in order
    wire            \* per connection, the messages the writer took from
                    \* Client.send and handed to conn.WriteMessage, in order

VARIABLES
    \* events.ts and the browser
    page,           \* the module's variables, the auth store's token, every
                    \* socket's readyState and sent frames, pending timers
    srvOpen,        \* sockets whose server end (a Client) is up
    inbox,          \* frames the server wrote to a socket, not yet received
    calls,          \* the argument lists each handler was called with
    expect,         \* the call an Emit made each handler due
    bornOpen,       \* the open socket, if any, an event's entry was made under
    ncalls,
    nsrv

VARIABLES
    \* Server (part_003)
    sessions,       \* Server.sessions: token -> expiry
    now,            \* time.Now(), in hours
    nticks,
    issuedAt,       \* when each token was issued
    revoked,        \* tokens a logout has deleted
    nclients,       \* Client objects ServeWS has created (newClient)
    last            \* the request served last at this hour, and its response

VARIABLES
    \* Bus handlers and the operations of bridge.App (part_016)
    handlers,       \* Bus.handlers: event -> (id -> Handler)
    nextHandlerID,  \* Bus.nextHandlerID
    closures,       \* the functions On has returned: [event, id, handler]
    hlog,           \* the On calls and cancel calls made so far, in order
    invoked,        \* the handlers the last emitFromClient called
    opc,            \* position of each operation
    ocancel,        \* options.CancelId of the operation
    oreg,           \* the function On returned to the operation (unsubscribe)
    octx,           \* whether the operation's context has been cancelled
    nons,
    ncancels,
    nops

VARIABLES
    \* the gateway's WebSocket tunnel (part_003, proxyCoreWebsocket)
    tpc,            \* position of proxyCoreWebsocket
    ppc,            \* position of each proxyWebsocketPump
    pmsg,           \* the message a pump has read and not yet written
    errCh,          \* errCh: the errors sent and not yet received
    tconn,          \* whether Close has been called on each connection
    tfail,          \* whether each connection's peer or network has failed
    tin,            \* messages that have arrived on each connection
    tout,           \* messages written to each connection
    npeer,
    tstat           \* the handshakes: upstream dialled, inbound upgraded, status answered

VARIABLES
    \* the gateway's forwarding (part_003, handleCoreProxy)
    inbound,        \* the /api/core/* request being served: headers and query
    forwarded       \* the request the gateway makes to the upstream for it

VARIABLES
    \* ExecBackground (part_008) and the task it starts
    exec,           \* position of the call and of the task
    temitted        \* the events the task has emitted, in order

VARIABLES
    \* a stream of WebSockets.createWS (websockets.ts) and Server.shutdown
    stream,         \* wsMap[name]: ready, the socket its close is bound to,
                    \* every socket's readyState, the calls made so far
    shut            \* Server.shutdown and the position of each Shutdown call

busVars == <<subscribers, mu>>
tunVars == <<tpc, ppc, pmsg, errCh, tconn, tfail, tin, tout, npeer, tstat>>
fwdVars == <<inbound, forwarded>>
execVars == <<exec, temitted>>
lifeVars == <<stream, shut>>
regVars == <<handlers, nextHandlerID, closures, hlog, opc, ocancel, oreg,
             nons, ncancels, nops>>
runVars == <<invoked, octx>>
histVars == <<elog, enq, wire>>
muxVars == <<page, srvOpen, inbox, calls, expect, bornOpen, ncalls, nsrv>>
httpVars == <<sessions, now, nticks, issuedAt, revoked, nclients, last>>
clientVars == <<send, sendClosed, closedSig, connClosed, events, teardowns>>
loopVars == <<pc, rframe, frames>>
emitVars == <<epc, emsg, etodo, ecur, ewoken, eadded, nemits>>
vars == <<busVars, clientVars, loopVars, emitVars, fault, muxVars, httpVars,
          regVars, runVars, histVars, tunVars, fwdVars, execVars, lifeVars>>

\* what no step of the bus touches
OtherFrame == UNCHANGED <<muxVars, httpVars, regVars, runVars, tunVars, fwdVars, execVars, lifeVars>>
BusFrame == OtherFrame /\ UNCHANGED histVars

(***************************************************************************)
(* Pure helpers.                                                           *)
(***************************************************************************)
Range(s) == {s[i] : i \in DOMAIN s}

\* json.Marshal(wsMessage{Event, Payload}): both fields are omitempty; a
\* payload holding an unsupported value makes Marshal fail.
Marshalable(payload) == "func" \notin Range(payload)

Marshal(event, payload) ==
    [k \in (IF event = "" THEN {} ELSE {"event"})
           \cup (IF Len(payload) = 0 THEN {} ELSE {"payload"}) |->
        IF k = "event" THEN <<event>> ELSE payload]

\* an emitter outside any call, a reader holding no frame
NoCall == [event |-> "", payload |-> <<>>, data |-> Marshal("", <<>>)]
NoFrame == [action |-> "", event |-> ""]

\* b.subscribers[event] for a possibly absent key
SubsOf(subs, event) == IF event \in DOMAIN subs THEN subs[event] ELSE {}

MapPut(m, k, v) == [x \in DOMAIN m \cup {k} |-> IF x = k THEN v ELSE m[x]]
MapDel(m, k) == [x \in DOMAIN m \ {k} |-> m[x]]

\* Bus.Subscribe under the lock
Subscribe(subs, event, client) ==
    MapPut(subs, event, SubsOf(subs, event) \cup {client})

\* Bus.Unsubscribe under the lock
Unsubscribe(subs, event, client) ==
    IF event \in DOMAIN subs
    THEN IF subs[event] \ {client} = {}
         THEN MapDel(subs, event)
         ELSE MapPut(subs, event, subs[event] \ {client})
    ELSE subs

\* a removeClient that leaves the emptied sets in the registry
removeClientKeep(subs, client) == [e \in DOMAIN subs |-> subs[e] \ {client}]

\* Bus.removeClient under the lock
removeClient(subs, client) ==
    [e \in {x \in DOMAIN subs : subs[x] \ {client} # {}} |-> subs[e] \ {client}]

Reader(c) == <<"r", c>>
Writer(c) == <<"w", c>>
Loops == {Reader(c) : c \in Conns} \cup {Writer(c) : c \in Conns}
ConnOf(g) == g[2]

Running == fault = None

\* sync.RWMutex. Every section under the write lock is one step, so the
\* write lock is never held across steps: RLock waits for nobody and Lock
\* waits for the readers to leave.
CanRLock == TRUE
CanLock == mu = {}

(***************************************************************************)
(* Initial state: New() and two upgraded connections (ServeWS/newClient).  *)
(***************************************************************************)
InitBus ==
    /\ subscribers = [e \in {} |-> {}]
    /\ mu = {}
    /\ send = [c \in Conns |-> <<>>]
    /\ sendClosed = [c \in Conns |-> FALSE]
    /\ closedSig = [c \in Conns |-> FALSE]
    /\ connClosed = [c \in Conns |-> FALSE]
    /\ events = [c \in Conns |-> {}]
    /\ teardowns = [c \in Conns |-> 0]
    /\ pc = [g \in Loops |-> IF g[1] = "r" THEN "read" ELSE "select"]
    /\ rframe = [c \in Conns |-> NoFrame]
    /\ frames = 0
    /\ epc = [e \in Emitters |-> "idle"]
    /\ emsg = [e \in Emitters |-> NoCall]
    /\ etodo = [e \in Emitters |-> {}]
    /\ ecur = [e \in Emitters |-> None]
    /\ ewoken = [e \in Emitters |-> None]
    /\ eadded = [e \in Emitters |-> [c \in Conns |-> <<>>]]
    /\ nemits = 0
    /\ fault = None
    /\ elog = <<>>
    /\ enq = [c \in Conns |-> <<>>]
    /\ wire = [c \in Conns |-> <<>>]

\* The same bus when connection c2 has already been torn down (its reader
\* failed, close() ran to its end, its writer saw the closed signal).
InitOneLive ==
    /\ subscribers = [e \in {} |-> {}]
    /\ mu = {}
    /\ send = [c \in Conns |-> <<>>]
    /\ sendClosed = [c \in Conns |-> c = "c2"]
    /\ closedSig = [c \in Conns |-> c = "c2"]
    /\ connClosed = [c \in Conns |-> c = "c2"]
    /\ events = [c \in Conns |-> {}]
    /\ teardowns = [c \in Conns |-> IF c = "c2" THEN 1 ELSE 0]
    /\ pc = [g \in Loops |-> IF ConnOf(g) = "c2" THEN "done"
                              ELSE IF g[1] = "r" THEN "read" ELSE "select"]
    /\ rframe = [c \in Conns |-> NoFrame]
    /\ frames = 0
    /\ epc = [e \in Emitters |-> "idle"]
    /\ emsg = [e \in Emitters |-> NoCall]
    /\ etodo = [e \in Emitters |-> {}]
    /\ ecur = [e \in Emitters |-> None]
    /\ ewoken = [e \in Emitters |-> None]
    /\ eadded = [e \in Emitters |-> [c \in Conns |-> <<>>]]
    /\ nemits = 0
    /\ fault = None
    /\ elog = <<>>
    /\ enq = [c \in Conns |-> <<>>]
    /\ wire = [c \in Conns |-> <<>>]

\* The bus of InitOneLive once the live connection has subscribed to one
\* event.
InitOneSubscribed ==
    /\ subscribers = [ev \in {"x"} |-> {"c1"}]
    /\ mu = {}
    /\ send = [c \in Conns |-> <<>>]
    /\ sendClosed = [c \in Conns |-> c = "c2"]
    /\ closedSig = [c \in Conns |-> c = "c2"]
    /\ connClosed = [c \in Conns |-> c = "c2"]
    /\ events = [c \in Conns |-> IF c = "c1" THEN {"x"} ELSE {}]
    /\ teardowns = [c \in Conns |-> IF c = "c2" THEN 1 ELSE 0]
    /\ pc = [g \in Loops |-> IF ConnOf(g) = "c2" THEN "done"
                              ELSE IF g[1] = "r" THEN "read" ELSE "select"]
    /\ rframe = [c \in Conns |-> NoFrame]
    /\ frames = 0
    /\ epc = [e \in Emitters |-> "idle"]
    /\ emsg = [e \in Emitters |-> NoCall]
    /\ etodo = [e \in Emitters |-> {}]
    /\ ecur = [e \in Emitters |-> None]
    /\ ewoken = [e \in Emitters |-> None]
    /\ eadded = [e \in Emitters |-> [c \in Conns |-> <<>>]]
    /\ nemits = 0
    /\ fault = None
    /\ elog = <<>>
    /\ enq = [c \in Conns |-> <<>>]
    /\ wire = [c \in Conns |-> <<>>]

\* The same bus once each connection has sent a subscribe frame for each
\* event and its reader has dispatched them all.
InitSubscribed ==
    /\ subscribers = [ev \in Events |-> Conns]
    /\ mu = {}
    /\ send = [c \in Conns |-> <<>>]
    /\ sendClosed = [c \in Conns |-> FALSE]
    /\ closedSig = [c \in Conns |-> FALSE]
    /\ connClosed = [c \in Conns |-> FALSE]
    /\ events = [c \in Conns |-> Events]
    /\ teardowns = [c \in Conns |-> 0]
    /\ pc = [g \in Loops |-> IF g[1] = "r" THEN "read" ELSE "select"]
    /\ rframe = [c \in Conns |-> NoFrame]
    /\ frames = 0
    /\ epc = [e \in Emitters |-> "idle"]
    /\ emsg = [e \in Emitters |-> NoCall]
    /\ etodo = [e \in Emitters |-> {}]
    /\ ecur = [e \in Emitters |-> None]
    /\ ewoken = [e \in Emitters |-> None]
    /\ eadded = [e \in Emitters |-> [c \in Conns |-> <<>>]]
    /\ nemits = 0
    /\ fault = None
    /\ elog = <<>>
    /\ enq = [c \in Conns |-> <<>>]
    /\ wire = [c \in Conns |-> <<>>]

(***************************************************************************)
(* Bus.Emit (part_000:54-66) and Client.queue (part_001:35-40).            *)
(***************************************************************************)
\* json.Marshal fails: Emit returns before it touches the lock.
EmitDropped(e, event, payload) ==
    /\ Running /\ epc[e] = "idle"
    /\ ~Marshalable(payload)
    /\ UNCHANGED vars

\* a loop over every connection, subscribed or not
EmitTargetsAll(subs, event) == Conns

\* for client := range b.subscribers[event]
EmitTargets(subs, event) == SubsOf(subs, event)

\* json.Marshal succeeds; b.mu.RLock(); the range loop starts over
\* b.subscribers[event].
EmitBegin(e, event, payload) ==
    /\ Running /\ epc[e] = "idle" /\ nemits < MaxEmits
    /\ Marshalable(payload)
    /\ CanRLock
    /\ nemits' = nemits + 1
    /\ mu' = mu \cup {e}
    /\ emsg' = [emsg EXCEPT ![e] =
                  [event |-> event, payload |-> payload,
                   data |-> Marshal(event, payload)]]
    /\ etodo' = [etodo EXCEPT ![e] = EmitTargets(subscribers, event)]
    /\ epc' = [epc EXCEPT ![e] = "range"]
    /\ elog' = Append(elog, Marshal(event, payload))
    /\ UNCHANGED <<subscribers, clientVars, loopVars, ecur, ewoken, eadded, fault>>
    /\ UNCHANGED <<enq, wire>>
    /\ OtherFrame

\* the cases of queue()'s select that can proceed
SendReady(c) == sendClosed[c] \/ Len(send[c]) < QueueCap
ClosedReady(c) == closedSig[c]

\* case c.send <- payload, with room in the buffer
QueueSend(e, c) ==
    /\ Running /\ epc[e] = "range" /\ ecur[e] = None /\ c \in etodo[e]
    /\ ~sendClosed[c] /\ Len(send[c]) < QueueCap
    /\ send' = [send EXCEPT ![c] = Append(@, emsg[e].data)]
    /\ enq' = [enq EXCEPT ![c] = Append(@, emsg[e].data)]
    /\ eadded' = [eadded EXCEPT ![e][c] = Append(@, emsg[e].data)]
    /\ etodo' = [etodo EXCEPT ![e] = @ \ {c}]
    /\ UNCHANGED <<busVars, sendClosed, closedSig, connClosed, events, teardowns,
                   loopVars, epc, emsg, ecur, ewoken, nemits, fault>>
    /\ UNCHANGED <<elog, wire>>
    /\ OtherFrame

\* case c.send <- payload on a channel close() has closed: the send panics
QueueSendOnClosed(e, c) ==
    /\ Running /\ epc[e] = "range" /\ ecur[e] = None /\ c \in etodo[e]
    /\ sendClosed[c]
    /\ fault' = "send on closed channel"
    /\ UNCHANGED <<busVars, clientVars, loopVars, emitVars>>
    /\ BusFrame

\* case <-c.closed
QueueClosed(e, c) ==
    /\ Running /\ epc[e] = "range" /\ ecur[e] = None /\ c \in etodo[e]
    /\ ClosedReady(c)
    /\ etodo' = [etodo EXCEPT ![e] = @ \ {c}]
    /\ UNCHANGED <<busVars, clientVars, loopVars, epc, emsg, ecur, ewoken, eadded,
                   nemits, fault>>
    /\ BusFrame

\* no case can proceed: the emitter parks in the select, holding the read lock
QueueBlock(e, c) ==
    /\ Running /\ epc[e] = "range" /\ ecur[e] = None /\ c \in etodo[e]
    /\ ~SendReady(c) /\ ~ClosedReady(c)
    /\ ecur' = [ecur EXCEPT ![e] = c]
    /\ UNCHANGED <<busVars, clientVars, loopVars, epc, emsg, etodo, ewoken, eadded,
                   nemits, fault>>
    /\ BusFrame

\* the range loop is over: Emit is about to return
EmitLoopEnd(e) ==
    /\ Running /\ epc[e] = "range" /\ etodo[e] = {}
    /\ epc' = [epc EXCEPT ![e] = "return"]
    /\ UNCHANGED <<busVars, clientVars, loopVars, emsg, etodo, ecur, ewoken, eadded,
                   nemits, fault>>
    /\ BusFrame

\* the deferred b.mu.RUnlock() runs and Emit returns
EmitReturn(e) ==
    /\ Running /\ epc[e] = "return"
    /\ mu' = mu \ {e}
    /\ epc' = [epc EXCEPT ![e] = "idle"]
    /\ emsg' = [emsg EXCEPT ![e] = NoCall]
    /\ ewoken' = [ewoken EXCEPT ![e] = None]
    /\ eadded' = [eadded EXCEPT ![e] = [c \in Conns |-> <<>>]]
    /\ UNCHANGED <<subscribers, clientVars, loopVars, etodo, ecur, nemits, fault>>
    /\ BusFrame

\* emitters parked in queue(c)
Parked(c) == {e \in Emitters : ecur[e] = c}
\* a queue() whose select lacks case <-c.closed: nobody wakes
UnparkNone(c) == UNCHANGED <<ecur, etodo, ewoken>>

\* emitters parked in queue(c) wake by case <-c.closed
Unpark(c) ==
    /\ ecur' = [e \in Emitters |-> IF ecur[e] = c THEN None ELSE ecur[e]]
    /\ etodo' = [e \in Emitters |-> IF ecur[e] = c THEN etodo[e] \ {c} ELSE etodo[e]]
    /\ ewoken' = [e \in Emitters |-> IF ecur[e] = c THEN "closed" ELSE ewoken[e]]

(***************************************************************************)
(* Client.close (part_001:99-109), run by the reader (deferred) and by the *)
(* writer (deferred); nothing orders its statements against the other.     *)
(***************************************************************************)
\* select { case <-c.closed: return; default: ... }, evaluated as the loop
\* returns into the deferred c.close()
CloseEntry(c) == IF closedSig[c] THEN "done" ELSE "closeSig"

\* default: close(c.closed); emitters parked in queue(c) take case <-c.closed
CloseSignal(g) ==
    /\ Running /\ pc[g] = "closeSig"
    /\ IF closedSig[ConnOf(g)]
       THEN /\ fault' = "close of closed channel"
            /\ UNCHANGED <<closedSig, pc, ecur, etodo, ewoken>>
       ELSE /\ closedSig' = [closedSig EXCEPT ![ConnOf(g)] = TRUE]
            /\ pc' = [pc EXCEPT ![g] = "remove"]
            /\ Unpark(ConnOf(g))
            /\ UNCHANGED fault
    /\ UNCHANGED <<busVars, send, sendClosed, connClosed, events, teardowns,
                   rframe, frames, epc, emsg, eadded, nemits>>
    /\ BusFrame

\* c.bus.removeClient(c), once the readers have left
CloseRemove(g) ==
    /\ Running /\ pc[g] = "remove" /\ CanLock
    /\ subscribers' = removeClient(subscribers, ConnOf(g))
    /\ UNCHANGED mu
    /\ teardowns' = [teardowns EXCEPT ![ConnOf(g)] = @ + 1]
    /\ pc' = [pc EXCEPT ![g] = "connClose"]
    /\ UNCHANGED <<send, sendClosed, closedSig, connClosed, events, rframe, frames,
                   emitVars, fault>>
    /\ BusFrame

\* c.conn.Close(); close(c.send)
CloseConn(g) ==
    /\ Running /\ pc[g] = "connClose"
    /\ connClosed' = [connClosed EXCEPT ![ConnOf(g)] = TRUE]
    /\ IF sendClosed[ConnOf(g)]
       THEN /\ fault' = "close of closed channel"
            /\ UNCHANGED <<sendClosed, pc>>
       ELSE /\ sendClosed' = [sendClosed EXCEPT ![ConnOf(g)] = TRUE]
            /\ pc' = [pc EXCEPT ![g] = "done"]
            /\ UNCHANGED fault
    /\ UNCHANGED <<busVars, send, closedSig, events, teardowns, rframe, frames,
                   emitVars>>
    /\ BusFrame

(***************************************************************************)
(* Bus.On, the function it returns and Bus.emitFromClient                  *)
(* (part_000:106-138).                                                     *)
(***************************************************************************)
\* handlers registered by server code other than the operations
Handlers == {"H1", "H2"}
\* goroutines running Requests, Download or Upload
Ops == {"o1"}
\* options.CancelId: empty, or an event name
CancelIds == {"", "x"}

NoHandlers == [i \in {} |-> ""]
\* b.handlers[event] for a possibly absent key
HandlersOf(hs, event) == IF event \in DOMAIN hs THEN hs[event] ELSE NoHandlers

\* ids in use in the registry
IdsOf(hs) == UNION {DOMAIN hs[ev] : ev \in DOMAIN hs}

\* a counter that hands out the smallest id not in use
ReusedID(hs, next) == CHOOSE i \in 1..(Cardinality(IdsOf(hs)) + 1) : i \notin IdsOf(hs)

\* b.nextHandlerID++; id := b.nextHandlerID
NextID(hs, next) == next + 1

\* On, under the lock: b.handlers[event][id] = handler
On(hs, event, id, handler) ==
    MapPut(hs, event, MapPut(HandlersOf(hs, event), id, handler))

\* a cancel function that drops the whole entry of the event
OffEvent(hs, event, id) == MapDel(hs, event)

\* the function On returns, under the lock
Off(hs, event, id) ==
    IF event \in DOMAIN hs
    THEN IF DOMAIN hs[event] \ {id} = {}
         THEN MapDel(hs, event)
         ELSE MapPut(hs, event, MapDel(hs[event], id))
    ELSE hs

\* emitFromClient: the handlers the range loop calls, as <<id, handler>>
emitFromClient(hs, event) ==
    {<<id, HandlersOf(hs, event)[id]>> : id \in DOMAIN HandlersOf(hs, event)}

\* the handlers run: the one an operation registered calls cancel()
\* (part_016:30-33, 67-70, 145-148), H1 and H2 touch nothing here
RunHandlers(ctx, ran) ==
    [o \in Ops |-> ctx[o] \/ \E p \in ran : p[2] = o]

NoClosure == 0
LogOn(i) == [op |-> "on", cl |-> i]
LogOff(i) == [op |-> "off", cl |-> i]

InitReg ==
    /\ handlers = [ev \in {} |-> NoHandlers]
    /\ nextHandlerID = 0
    /\ closures = <<>>
    /\ hlog = <<>>
    /\ invoked = {}
    /\ opc = [o \in Ops |-> "idle"]
    /\ ocancel = [o \in Ops |-> ""]
    /\ oreg = [o \in Ops |-> NoClosure]
    /\ octx = [o \in Ops |-> FALSE]
    /\ nons = 0
    /\ ncancels = 0
    /\ nops = 0

\* what no step on the registry touches
RegFrame ==
    UNCHANGED <<busVars, clientVars, loopVars, emitVars, fault, muxVars, httpVars,
                histVars, tunVars, fwdVars, execVars, lifeVars>>

\* b.On(event, handler), once the readers have left; the returned function
\* is kept
Register(event, handler) ==
    /\ handlers' = On(handlers, event, NextID(handlers, nextHandlerID), handler)
    /\ nextHandlerID' = NextID(handlers, nextHandlerID)
    /\ closures' = Append(closures, [event |-> event,
                                     id |-> NextID(handlers, nextHandlerID),
                                     handler |-> handler])
    /\ hlog' = Append(hlog, LogOn(Len(closures) + 1))

\* server code calls b.On(event, handler)
BusOn(event, handler) ==
    /\ Running /\ nons < MaxOns /\ CanLock
    /\ nons' = nons + 1
    /\ Register(event, handler)
    /\ UNCHANGED <<opc, ocancel, oreg, ncancels, nops, runVars>>
    /\ RegFrame

\* server code calls, for the first time or again, the function On returned
\* for closure i; it runs once the readers have left
CancelFn(i) ==
    /\ Running /\ ncancels < MaxCancels /\ CanLock
    /\ i \in DOMAIN closures /\ closures[i].handler \in Handlers
    /\ ncancels' = ncancels + 1
    /\ handlers' = Off(handlers, closures[i].event, closures[i].id)
    /\ hlog' = Append(hlog, LogOff(i))
    /\ UNCHANGED <<nextHandlerID, closures, opc, ocancel, oreg, nons, nops, runVars>>
    /\ RegFrame

(***************************************************************************)
(* App.Requests, App.Download and App.Upload (part_016:16-174) as far as   *)
(* the bus goes. Requests and Download make the context and the request,   *)
(* register the cancel handler when options.CancelId is not empty, defer   *)
(* unsubscribe, do the transfer and return. Upload first reads the file    *)
(* into the multipart body and only then makes the context and registers   *)
(* the handler. The progress events are Emit calls of the emitters.        *)
(***************************************************************************)
\* Requests or Download fails in http.NewRequestWithContext, before it
\* reaches a.Bus.On
OpRefused(o, cancelId) ==
    /\ Running /\ opc[o] = "idle" /\ nops < MaxOps
    /\ nops' = nops + 1
    /\ UNCHANGED <<handlers, nextHandlerID, closures, hlog, opc, ocancel, oreg,
                   nons, ncancels, runVars>>
    /\ RegFrame

\* a.Bus.On(options.CancelId, ...) when the id is not empty, which takes the
\* lock; defer unsubscribe()
Started(o, cancelId) ==
    /\ opc' = [opc EXCEPT ![o] = "doing"]
    /\ IF cancelId = ""
       THEN UNCHANGED <<handlers, nextHandlerID, closures, hlog, oreg>>
       ELSE /\ CanLock
            /\ Register(cancelId, o)
            /\ oreg' = [oreg EXCEPT ![o] = Len(closures) + 1]

\* Requests or Download: withRequestOptionsClient, the request, a.Bus.On
OpBegin(o, cancelId) ==
    /\ Running /\ opc[o] = "idle" /\ nops < MaxOps
    /\ nops' = nops + 1
    /\ octx' = [octx EXCEPT ![o] = FALSE]
    /\ ocancel' = [ocancel EXCEPT ![o] = cancelId]
    /\ Started(o, cancelId)
    /\ UNCHANGED <<nons, ncancels, invoked>>
    /\ RegFrame

\* Upload is called: it opens the file and copies it into the multipart
\* body (part_016:108-139)
UploadCall(o, cancelId) ==
    /\ Running /\ opc[o] = "idle" /\ nops < MaxOps
    /\ nops' = nops + 1
    /\ octx' = [octx EXCEPT ![o] = FALSE]
    /\ ocancel' = [ocancel EXCEPT ![o] = cancelId]
    /\ opc' = [opc EXCEPT ![o] = "reading"]
    /\ UNCHANGED <<handlers, nextHandlerID, closures, hlog, oreg, nons, ncancels,
                   invoked>>
    /\ RegFrame

\* Upload fails on the file or on the multipart body and returns
UploadRefused(o) ==
    /\ Running /\ opc[o] = "reading"
    /\ opc' = [opc EXCEPT ![o] = "idle"]
    /\ UNCHANGED <<handlers, nextHandlerID, closures, hlog, ocancel, oreg,
                   nons, ncancels, nops, runVars>>
    /\ RegFrame

\* Upload has its body: withRequestOptionsClient, a.Bus.On (part_016:141-152)
UploadBegin(o) ==
    /\ Running /\ opc[o] = "reading"
    /\ Started(o, ocancel[o])
    /\ UNCHANGED <<ocancel, nons, ncancels, nops, runVars>>
    /\ RegFrame

\* client.Do and what follows it end, with a result or with an error (as
\* they do when the context is cancelled); the deferred unsubscribe is next
OpDone(o) ==
    /\ Running /\ opc[o] = "doing"
    /\ opc' = [opc EXCEPT ![o] = IF oreg[o] = NoClosure THEN "idle" ELSE "unsub"]
    /\ UNCHANGED <<handlers, nextHandlerID, closures, hlog, ocancel, oreg,
                   nons, ncancels, nops, runVars>>
    /\ RegFrame

\* the deferred unsubscribe() runs, once the readers have left, and the
\* operation returns
OpUnsubscribe(o) ==
    /\ Running /\ opc[o] = "unsub" /\ CanLock
    /\ handlers' = Off(handlers, closures[oreg[o]].event, closures[oreg[o]].id)
    /\ hlog' = Append(hlog, LogOff(oreg[o]))
    /\ oreg' = [oreg EXCEPT ![o] = NoClosure]
    /\ opc' = [opc EXCEPT ![o] = "idle"]
    /\ UNCHANGED <<nextHandlerID, closures, ocancel, nons, ncancels, nops, runVars>>
    /\ RegFrame

(***************************************************************************)
(* Client.readLoop (part_001:42-71).                                       *)
(***************************************************************************)
FrameActions == {"subscribe", "unsubscribe", "emit", "ping"}

\* c.conn.ReadJSON returns a frame; "ping" is answered with a pong at once
ReadFrame(c, action, event) ==
    /\ Running /\ pc[Reader(c)] = "read" /\ ~connClosed[c]
    /\ IF action = "ping"
       THEN UNCHANGED <<pc, rframe, frames>>
       ELSE /\ frames < MaxFrames
            /\ frames' = frames + 1
            /\ pc' = [pc EXCEPT ![Reader(c)] = action]
            /\ rframe' = [rframe EXCEPT ![c] = [action |-> action, event |-> event]]
    /\ UNCHANGED <<busVars, clientVars, emitVars, fault>>
    /\ BusFrame

\* c.conn.ReadJSON fails (malformed frame, read error, deadline, closed
\* socket): readLoop returns and the deferred c.close() runs
ReadError(c) ==
    /\ Running /\ pc[Reader(c)] = "read"
    /\ pc' = [pc EXCEPT ![Reader(c)] = CloseEntry(c)]
    /\ UNCHANGED <<busVars, clientVars, rframe, frames, emitVars, fault>>
    /\ BusFrame

\* case "subscribe": c.events[msg.Event] = struct{}{}; Bus.Subscribe, once
\* the readers have left
SubscribeDo(c) ==
    /\ Running /\ pc[Reader(c)] = "subscribe" /\ CanLock
    /\ events' = [events EXCEPT ![c] = @ \cup {rframe[c].event}]
    /\ subscribers' = Subscribe(subscribers, rframe[c].event, c)
    /\ pc' = [pc EXCEPT ![Reader(c)] = "read"]
    /\ rframe' = [rframe EXCEPT ![c] = NoFrame]
    /\ UNCHANGED <<mu, send, sendClosed, closedSig, connClosed, teardowns, frames,
                   emitVars, fault>>
    /\ BusFrame

\* case "unsubscribe": delete(c.events, msg.Event); Bus.Unsubscribe, once the
\* readers have left
UnsubscribeDo(c) ==
    /\ Running /\ pc[Reader(c)] = "unsubscribe" /\ CanLock
    /\ events' = [events EXCEPT ![c] = @ \ {rframe[c].event}]
    /\ subscribers' = Unsubscribe(subscribers, rframe[c].event, c)
    /\ pc' = [pc EXCEPT ![Reader(c)] = "read"]
    /\ rframe' = [rframe EXCEPT ![c] = NoFrame]
    /\ UNCHANGED <<mu, send, sendClosed, closedSig, connClosed, teardowns, frames,
                   emitVars, fault>>
    /\ BusFrame

\* case "emit": Bus.emitFromClient takes the read lock, runs the handlers
\* registered for the event and releases it
EmitFromClient(c) ==
    /\ Running /\ pc[Reader(c)] = "emit" /\ CanRLock
    /\ invoked' = emitFromClient(handlers, rframe[c].event)
    /\ octx' = RunHandlers(octx, emitFromClient(handlers, rframe[c].event))
    /\ pc' = [pc EXCEPT ![Reader(c)] = "read"]
    /\ rframe' = [rframe EXCEPT ![c] = NoFrame]
    /\ UNCHANGED <<busVars, clientVars, frames, emitVars, fault>>
    /\ UNCHANGED <<muxVars, httpVars, regVars, histVars, tunVars, fwdVars, execVars, lifeVars>>

(***************************************************************************)
(* Client.writeLoop (part_001:73-97).                                      *)
(***************************************************************************)
\* a receive that takes the value straight from the parked sender and
\* leaves the buffer as it is
HandoffDirect(q, data) == [msg |-> data, rest |-> q]

\* a receive from a full buffered channel with a sender parked on it: the
\* receiver gets the head of the buffer and the sender's value goes to the
\* back of the buffer
Handoff(q, data) == [msg |-> Head(q), rest |-> Append(Tail(q), data)]

\* case msg, ok := <-c.send with ok: the receive takes the head of the
\* buffer and completes the send of an emitter parked on the full buffer;
\* then c.conn.WriteMessage succeeds (ok) or fails
WriteMessage(c, ok) ==
    /\ Running /\ pc[Writer(c)] = "select" /\ send[c] # <<>>
    /\ ok => ~connClosed[c]
    /\ IF Parked(c) = {}
       THEN /\ send' = [send EXCEPT ![c] = Tail(@)]
            /\ wire' = [wire EXCEPT ![c] = Append(@, Head(send[c]))]
            /\ UNCHANGED <<ecur, ewoken, etodo, eadded, enq>>
       ELSE \E e \in Parked(c) :
            /\ send' = [send EXCEPT ![c] = Handoff(send[c], emsg[e].data).rest]
            /\ wire' = [wire EXCEPT ![c] =
                           Append(@, Handoff(send[c], emsg[e].data).msg)]
            /\ enq' = [enq EXCEPT ![c] = Append(@, emsg[e].data)]
            /\ eadded' = [eadded EXCEPT ![e][c] = Append(@, emsg[e].data)]
            /\ ecur' = [ecur EXCEPT ![e] = None]
            /\ ewoken' = [ewoken EXCEPT ![e] = "sent"]
            /\ etodo' = [etodo EXCEPT ![e] = @ \ {c}]
    /\ pc' = [pc EXCEPT ![Writer(c)] = IF ok THEN "select" ELSE CloseEntry(c)]
    /\ UNCHANGED <<busVars, sendClosed, closedSig, connClosed, events, teardowns,
                   rframe, frames, epc, emsg, nemits, fault>>
    /\ UNCHANGED elog
    /\ OtherFrame

\* case msg, ok := <-c.send with !ok: the queue is closed and empty
WriteQueueClosed(c) ==
    /\ Running /\ pc[Writer(c)] = "select" /\ sendClosed[c] /\ send[c] = <<>>
    /\ pc' = [pc EXCEPT ![Writer(c)] = CloseEntry(c)]
    /\ UNCHANGED <<busVars, clientVars, rframe, frames, emitVars, fault>>
    /\ BusFrame

\* case <-ticker.C: the heartbeat's WriteControl fails (a heartbeat that is
\* written changes nothing)
WritePingError(c) ==
    /\ Running /\ pc[Writer(c)] = "select"
    /\ pc' = [pc EXCEPT ![Writer(c)] = CloseEntry(c)]
    /\ UNCHANGED <<busVars, clientVars, rframe, frames, emitVars, fault>>
    /\ BusFrame

\* case <-c.closed
WriteSeesClosed(c) ==
    /\ Running /\ pc[Writer(c)] = "select" /\ closedSig[c]
    /\ pc' = [pc EXCEPT ![Writer(c)] = CloseEntry(c)]
    /\ UNCHANGED <<busVars, clientVars, rframe, frames, emitVars, fault>>
    /\ BusFrame

EmitterStep(e) ==
    \/ \E c \in Conns : \/ QueueSend(e, c)
                        \/ QueueSendOnClosed(e, c)
                        \/ QueueClosed(e, c)
                        \/ QueueBlock(e, c)
    \/ EmitLoopEnd(e) \/ EmitReturn(e)

CloseStep(g) ==
    \/ CloseSignal(g) \/ CloseRemove(g) \/ CloseConn(g)

DispatchStep(c) ==
    \/ SubscribeDo(c) \/ UnsubscribeDo(c) \/ EmitFromClient(c)

Next ==
    \/ \E e \in Emitters, event \in Events, payload \in Payloads :
          EmitDropped(e, event, payload) \/ EmitBegin(e, event, payload)
    \/ \E e \in Emitters : EmitterStep(e)
    \/ \E c \in Conns, action \in FrameActions, event \in Events :
          ReadFrame(c, action, event)
    \/ \E c \in Conns : ReadError(c) \/ DispatchStep(c)
    \/ \E g \in Loops : CloseStep(g)
    \/ \E c \in Conns, ok \in BOOLEAN : WriteMessage(c, ok)
    \/ \E c \in Conns : WriteQueueClosed(c) \/ WritePingError(c) \/ WriteSeesClosed(c)

\* the handler registry: On calls, cancel calls, operations, emit frames
\* from the clients, and Emit calls that hold the read lock for a while
OnNext ==
    \/ \E event \in Events, handler \in Handlers : BusOn(event, handler)
    \/ \E i \in 1..(MaxOns + MaxOps) : CancelFn(i)
    \/ \E o \in Ops, cancelId \in CancelIds : OpRefused(o, cancelId) \/ OpBegin(o, cancelId)
    \/ \E o \in Ops, cancelId \in CancelIds : UploadCall(o, cancelId)
    \/ \E o \in Ops : UploadRefused(o) \/ UploadBegin(o)
    \/ \E o \in Ops : OpDone(o) \/ OpUnsubscribe(o)
    \/ \E c \in Conns, event \in Events : ReadFrame(c, "emit", event)
    \/ \E c \in Conns : EmitFromClient(c)
    \/ \E e \in Emitters : EmitBegin(e, "y", <<"1", "a">>)
    \/ \E e \in Emitters : EmitLoopEnd(e) \/ EmitReturn(e)

\* the two registries: subscribe and unsubscribe frames, connections
\* closing, On calls and cancel calls
RegistryNext ==
    \/ \E event \in Events, handler \in Handlers : BusOn(event, handler)
    \/ \E i \in 1..(MaxOns + MaxOps) : CancelFn(i)
    \/ \E c \in Conns, action \in {"subscribe", "unsubscribe"}, event \in Events :
          ReadFrame(c, action, event)
    \/ \E c \in Conns : SubscribeDo(c) \/ UnsubscribeDo(c)
    \/ \E c \in Conns : ReadError(c)
    \/ \E g \in Loops : CloseSignal(g) \/ CloseRemove(g) \/ CloseConn(g)

(***************************************************************************)
(* The page's event multiplexer (frontend/src/bridge/events.ts), the       *)
(* browser's WebSocket objects, and the server end of each socket. The     *)
(* server end is the bus above taken one whole handler at a time: a frame  *)
(* read and dispatched, an Emit written to every subscriber; its close()   *)
(* runs as the socket closes.                                              *)
(***************************************************************************)
\* let reconnectTimer = 1000; Math.min(reconnectTimer * 2, 10_000)
ReconnectBase == 1000
ReconnectCap == 10000

Sockets == 1..MaxSockets
Cbs == {"h1", "h2"}
\* argument lists of an emit
Args == {<<"1", "a">>, <<>>}
Keys == Events \X Cbs

\* JSON.stringify({action, event, payload}); the server decodes a missing
\* payload as the empty list
Frame(action, event, payload) ==
    [action |-> action, event |-> event, payload |-> payload]

\* JSON.parse(event.data): data.event, data.payload || []
ParseEvent(data) == IF "event" \in DOMAIN data THEN data["event"][1] ELSE None
ParsePayload(data) == IF "payload" \in DOMAIN data THEN data["payload"] ELSE <<>>

\* the iteration order of a Set, as a sequence
RECURSIVE SeqOf(_)
SeqOf(S) ==
    IF S = {} THEN <<>>
    ELSE LET x == CHOOSE y \in S : TRUE IN <<x>> \o SeqOf(S \ {x})

RECURSIVE SubscribeFrames(_)
SubscribeFrames(evs) ==
    IF evs = <<>> THEN <<>>
    ELSE <<Frame("subscribe", Head(evs), <<>>)>> \o SubscribeFrames(Tail(evs))

NoExpect == [sock |-> 0, base |-> 0, n |-> 0, args |-> <<>>]

\* the module as it is loaded
NewPage(token) ==
    [handlers |-> [e \in {} |-> {}],
     pendingSubscriptions |-> {},
     socket |-> 0,
     reconnectTimer |-> ReconnectBase,
     manualClose |-> FALSE,
     messageQueue |-> <<>>,
     token |-> token,
     readyState |-> [s \in Sockets |-> "NONE"],
     sent |-> [s \in Sockets |-> <<>>],
     nsock |-> 0,
     timers |-> 0,
     delays |-> <<>>]

InitMux(token) ==
    /\ page = NewPage(token)
    /\ srvOpen = {}
    /\ inbox = [s \in Sockets |-> <<>>]
    /\ calls = [k \in Keys |-> <<>>]
    /\ expect = [k \in Keys |-> NoExpect]
    /\ bornOpen = [e \in Events |-> 0]
    /\ ncalls = 0
    /\ nsrv = 0

\* socket && socket.readyState === WebSocket.OPEN
IsOpen(m) == m.socket # 0 /\ m.readyState[m.socket] = "OPEN"
\* socket && (readyState === OPEN || readyState === CONNECTING)
IsLive(m) == m.socket # 0 /\ m.readyState[m.socket] \in {"OPEN", "CONNECTING"}

\* a URL built without looking for a token
getWsUrlAlways(m) == "/ws?token"
\* const token = useAuthStore().token; if (!token) return ''
getWsUrl(m) == IF m.token THEN "/ws?token" ELSE ""

\* connect(): new WebSocket(wsUrl) unless there is no token or a live socket
connect(m) ==
    IF getWsUrl(m) = "" THEN m
    ELSE IF IsLive(m) THEN m
    ELSE [m EXCEPT !.manualClose = FALSE,
                   !.nsock = m.nsock + 1,
                   !.socket = m.nsock + 1,
                   !.readyState[m.nsock + 1] = "CONNECTING"]

\* a connect() that would need one socket more than the model has
NeedsSocket(m) == getWsUrl(m) # "" /\ ~IsLive(m)
CanConnect(m) == NeedsSocket(m) => m.nsock < MaxSockets

\* const hasHandlers = handlers.get(event)?.size
FlushWantedSized(m) ==
    {ev \in m.pendingSubscriptions :
        ev \in DOMAIN m.handlers /\ m.handlers[ev] # {}}

flushSubscriptions(m) ==
    IF ~IsOpen(m) THEN m
    ELSE [m EXCEPT !.pendingSubscriptions = {},
                   !.sent[m.socket] = @ \o SubscribeFrames(SeqOf(FlushWantedSized(m)))]

sendMessage(m, msg) ==
    IF IsOpen(m)
    THEN [m EXCEPT !.sent[m.socket] = Append(@, msg)]
    ELSE [m EXCEPT !.messageQueue = Append(@, msg)]

\* an onopen that does not resubscribe
ResubscribeNone(m) == m
\* for (const event of handlers.keys()) pendingSubscriptions.add(event);
\* flushSubscriptions()
Resubscribe(m) ==
    flushSubscriptions([m EXCEPT !.pendingSubscriptions = @ \cup DOMAIN m.handlers])

\* socket.onopen. The queue is spliced, then each message goes to
\* socket?.send: nowhere when socket is null, silently dropped on a closing
\* or closed socket, and send() on a connecting socket throws, which ends
\* the callback.
onopen(m) ==
    LET q == m.messageQueue
        m1 == [m EXCEPT !.reconnectTimer = ReconnectBase, !.messageQueue = <<>>,
                        !.delays = <<>>]
        throws == q # <<>> /\ m.socket # 0 /\ m.readyState[m.socket] = "CONNECTING"
        m2 == IF IsOpen(m) THEN [m1 EXCEPT !.sent[m.socket] = @ \o q] ELSE m1
    IN IF throws THEN m1 ELSE Resubscribe(m2)

\* socket?.close()
socketClose(m) ==
    IF IsLive(m) THEN [m EXCEPT !.readyState[m.socket] = "CLOSING"] ELSE m

\* socket.onerror
onerror(m) == socketClose(m)

\* a backoff without the cap
BackoffUncapped(t) == 2 * t
\* Math.min(reconnectTimer * 2, 10_000)
Backoff(t) == IF 2 * t < ReconnectCap THEN 2 * t ELSE ReconnectCap

\* socket.onclose. delays records the delays given to setTimeout since the
\* last open.
onclose(m) ==
    IF m.manualClose THEN [m EXCEPT !.socket = 0]
    ELSE [m EXCEPT !.socket = 0,
                   !.timers = @ + 1,
                   !.delays = Append(@, m.reconnectTimer),
                   !.reconnectTimer = Backoff(@)]

EventsOn(m, event, handler) ==
    LET m1 == connect(m)
        m2 == IF event \in DOMAIN m1.handlers THEN m1
              ELSE flushSubscriptions(
                     [m1 EXCEPT !.handlers = MapPut(@, event, {}),
                                !.pendingSubscriptions = @ \cup {event}])
    IN [m2 EXCEPT !.handlers[event] = @ \cup {handler}]

\* an EventsOff that tells the server whenever it removes a callback
EventsOffAlways(m, event, handler) ==
    IF event \notin DOMAIN m.handlers THEN m
    ELSE LET set == IF handler # None THEN m.handlers[event] \ {handler} ELSE {}
         IN sendMessage(IF set = {} THEN [m EXCEPT !.handlers = MapDel(@, event)]
                        ELSE [m EXCEPT !.handlers[event] = set],
                        Frame("unsubscribe", event, <<>>))

\* handler = None stands for the call without a handler
EventsOff(m, event, handler) ==
    IF event \notin DOMAIN m.handlers THEN m
    ELSE LET set == IF handler # None THEN m.handlers[event] \ {handler} ELSE {}
         IN IF set = {}
            THEN sendMessage([m EXCEPT !.handlers = MapDel(@, event)],
                             Frame("unsubscribe", event, <<>>))
            ELSE [m EXCEPT !.handlers[event] = set]

EventsEmit(m, event, payload) ==
    sendMessage(connect(m), Frame("emit", event, payload))

closeEvents(m) ==
    [socketClose([m EXCEPT !.manualClose = TRUE]) EXCEPT !.socket = 0]

\* the page, holding a token, has called EventsOn("x", h1) and then
\* closeEvents(): its first socket is closing
InitMuxClosing ==
    /\ page = closeEvents(EventsOn(NewPage(TRUE), "x", "h1"))
    /\ srvOpen = {}
    /\ inbox = [s \in Sockets |-> <<>>]
    /\ calls = [k \in Keys |-> <<>>]
    /\ expect = [k \in Keys |-> NoExpect]
    /\ bornOpen = [e \in Events |-> 0]
    /\ ncalls = 0
    /\ nsrv = 0

\* the page, holding a token, has called EventsOn("x", h1); its socket is
\* connecting
FirstAttempt == EventsOn(NewPage(TRUE), "x", "h1")

\* the connecting socket of m fails (error, then close) and the retry timer
\* fires; the closed socket, which has no further effect, is forgotten
Retry(m) ==
    LET closed == onclose(onerror([m EXCEPT !.readyState[m.socket] = "CLOSED"]))
    IN connect([closed EXCEPT !.timers = @ - 1,
                              !.nsock = 0,
                              !.readyState = [s \in Sockets |-> "NONE"]])

\* the page after k connection attempts in a row have failed
RECURSIVE Failed(_)
Failed(k) == IF k = 0 THEN FirstAttempt ELSE Retry(Failed(k - 1))

InitMuxBackoff ==
    /\ page \in {Failed(k) : k \in 0..MaxFails}
    /\ srvOpen = {}
    /\ inbox = [s \in Sockets |-> <<>>]
    /\ calls = [k \in Keys |-> <<>>]
    /\ expect = [k \in Keys |-> NoExpect]
    /\ bornOpen = [e \in Events |-> 0]
    /\ ncalls = 0
    /\ nsrv = 0

\* what no step of this part touches
MuxFrame ==
    UNCHANGED <<mu, clientVars, loopVars, emitVars, fault, httpVars, regVars, runVars,
                histVars, tunVars, fwdVars, execVars, lifeVars>>

\* the page calls EventsOn(event, handler)
PageEventsOn(event, handler) ==
    /\ ncalls < MaxCalls /\ CanConnect(page)
    /\ ncalls' = ncalls + 1
    /\ page' = EventsOn(page, event, handler)
    /\ bornOpen' = IF event \in DOMAIN page.handlers THEN bornOpen
                   ELSE [bornOpen EXCEPT ![event] =
                           IF IsOpen(connect(page)) THEN page.socket ELSE 0]
    /\ UNCHANGED <<subscribers, srvOpen, inbox, calls, expect, nsrv>>
    /\ MuxFrame

\* the page calls EventsOff(event, handler) or EventsOff(event)
PageEventsOff(event, handler) ==
    /\ ncalls < MaxCalls
    /\ ncalls' = ncalls + 1
    /\ page' = EventsOff(page, event, handler)
    /\ bornOpen' = [e \in Events |->
                      IF e \in DOMAIN EventsOff(page, event, handler).handlers
                      THEN bornOpen[e] ELSE 0]
    /\ expect' = [k \in Keys |->
                    IF k[1] = event /\ (handler = None \/ k[2] = handler)
                    THEN NoExpect ELSE expect[k]]
    /\ UNCHANGED <<subscribers, srvOpen, inbox, calls, nsrv>>
    /\ MuxFrame

\* the page calls EventsEmit(event, ...payload)
PageEventsEmit(event, payload) ==
    /\ ncalls < MaxCalls /\ CanConnect(page)
    /\ ncalls' = ncalls + 1
    /\ page' = EventsEmit(page, event, payload)
    /\ UNCHANGED <<subscribers, srvOpen, inbox, calls, expect, bornOpen, nsrv>>
    /\ MuxFrame

\* the page calls closeEvents()
PageCloseEvents ==
    /\ ncalls < MaxCalls
    /\ ncalls' = ncalls + 1
    /\ page' = closeEvents(page)
    /\ UNCHANGED <<subscribers, srvOpen, inbox, calls, expect, bornOpen, nsrv>>
    /\ MuxFrame

\* the auth store gains or loses its token (login, logout)
PageSetToken(t) ==
    /\ ncalls < MaxCalls /\ t # page.token
    /\ ncalls' = ncalls + 1
    /\ page' = [page EXCEPT !.token = t]
    /\ UNCHANGED <<subscribers, srvOpen, inbox, calls, expect, bornOpen, nsrv>>
    /\ MuxFrame

\* setTimeout(connect, reconnectTimer) fires
TimerFires ==
    /\ page.timers > 0 /\ CanConnect(page)
    /\ page' = connect([page EXCEPT !.timers = @ - 1])
    /\ UNCHANGED <<subscribers, srvOpen, inbox, calls, expect, bornOpen, ncalls, nsrv>>
    /\ MuxFrame

\* the handshake of socket s succeeds: the server's ServeWS has upgraded the
\* request, the browser fires open
WsOpen(s) ==
    /\ page.readyState[s] = "CONNECTING"
    /\ page' = onopen([page EXCEPT !.readyState[s] = "OPEN"])
    /\ srvOpen' = srvOpen \cup {s}
    /\ UNCHANGED <<subscribers, inbox, calls, expect, bornOpen, ncalls, nsrv>>
    /\ MuxFrame

\* socket s closes, both ends at once: after a failure the browser fires
\* error and then close, after close() only close; the server's close()
\* runs removeClient; frames in flight either way are lost
WsClose(s, failed) ==
    /\ page.readyState[s] \in {"CONNECTING", "OPEN", "CLOSING"}
    /\ failed => page.readyState[s] # "CLOSING"
    /\ LET m0 == [page EXCEPT !.readyState[s] = "CLOSED", !.sent[s] = <<>>]
       IN page' = onclose(IF failed THEN onerror(m0) ELSE m0)
    /\ srvOpen' = srvOpen \ {s}
    /\ subscribers' = removeClient(subscribers, s)
    /\ inbox' = [inbox EXCEPT ![s] = <<>>]
    /\ expect' = [k \in Keys |-> IF expect[k].sock = s THEN NoExpect ELSE expect[k]]
    /\ UNCHANGED <<calls, bornOpen, ncalls, nsrv>>
    /\ MuxFrame

\* socket.onmessage of socket s
WsMessage(s) ==
    /\ page.readyState[s] = "OPEN" /\ inbox[s] # <<>>
    /\ LET data == Head(inbox[s])
           callbacks == IF ParseEvent(data) \in DOMAIN page.handlers
                        THEN page.handlers[ParseEvent(data)] ELSE {}
       IN calls' = [k \in Keys |->
                      IF k[1] = ParseEvent(data) /\ k[2] \in callbacks
                      THEN Append(calls[k], ParsePayload(data)) ELSE calls[k]]
    /\ inbox' = [inbox EXCEPT ![s] = Tail(@)]
    /\ UNCHANGED <<page, subscribers, srvOpen, expect, bornOpen, ncalls, nsrv>>
    /\ MuxFrame

\* the server's readLoop for socket s reads the next frame and dispatches it
SrvRead(s) ==
    /\ s \in srvOpen /\ page.sent[s] # <<>>
    /\ LET msg == Head(page.sent[s])
       IN subscribers' =
            CASE msg.action = "subscribe" -> Subscribe(subscribers, msg.event, s)
              [] msg.action = "unsubscribe" -> Unsubscribe(subscribers, msg.event, s)
              [] OTHER -> subscribers
    /\ page' = [page EXCEPT !.sent[s] = Tail(@)]
    /\ UNCHANGED <<srvOpen, inbox, calls, expect, bornOpen, ncalls, nsrv>>
    /\ MuxFrame

\* frames for event waiting in the inbox of socket s
Waiting(s, event) ==
    Cardinality({i \in DOMAIN inbox[s] : ParseEvent(inbox[s][i]) = event})

\* a server-side Emit(event, args...) and the writers' WriteMessage. A
\* handler that is registered for the event while the page's socket is open
\* at both ends and the server has read every frame is due one call.
SrvEmit(event, args) ==
    /\ nsrv < MaxSrvEmits
    /\ nsrv' = nsrv + 1
    /\ inbox' = [s \in Sockets |->
                   IF s \in EmitTargets(subscribers, event)
                   THEN Append(inbox[s], Marshal(event, args)) ELSE inbox[s]]
    /\ expect' = [k \in Keys |->
                    IF /\ k[1] = event
                       /\ event \in DOMAIN page.handlers
                       /\ k[2] \in page.handlers[event]
                       /\ IsOpen(page) /\ page.socket \in srvOpen
                       /\ page.sent[page.socket] = <<>>
                    THEN [sock |-> page.socket,
                          base |-> Len(calls[k]),
                          n |-> Len(calls[k]) + Waiting(page.socket, event) + 1,
                          args |-> args]
                    ELSE expect[k]]
    /\ UNCHANGED <<page, subscribers, srvOpen, calls, bornOpen, ncalls>>
    /\ MuxFrame

MuxNext ==
    \/ \E event \in Events, handler \in Cbs : PageEventsOn(event, handler)
    \/ \E event \in Events, handler \in Cbs \cup {None} : PageEventsOff(event, handler)
    \/ \E event \in Events, payload \in Args : PageEventsEmit(event, payload)
    \/ PageCloseEvents
    \/ \E t \in BOOLEAN : PageSetToken(t)
    \/ TimerFires
    \/ \E s \in Sockets : WsOpen(s)
    \/ \E s \in Sockets, failed \in BOOLEAN : WsClose(s, failed)
    \/ \E s \in Sockets : WsMessage(s)
    \/ \E s \in Sockets : SrvRead(s)
    \/ \E event \in Events, args \in Args : SrvEmit(event, args)

(***************************************************************************)
(* The HTTP server (part_003): sessions, the auth middleware, /ws and the  *)
(* core gateway. A request is served in one step; the clock counts hours.  *)
(***************************************************************************)
\* sessionTTL: 24 * time.Hour
SessionTTL == 24
\* the clock moves by an hour, or to an hour short of a full TTL
TickSteps == {1, SessionTTL - 1}

\* the token generateToken returns, and a forged one
Tokens == {"t1"}
Forged == "t0"

\* Authorization headers: absent, "Bearer <token>" and another scheme
NoHeader == <<>>
AuthHeaders ==
    {NoHeader, <<"Basic", "t1">>, <<"Bearer", "t1">>, <<"Bearer", Forged>>}

\* strings.HasPrefix(header, "Bearer "), strings.TrimSpace of the rest
getBearerToken(header) ==
    IF Len(header) = 2 /\ header[1] = "Bearer" THEN header[2] ELSE ""

\* an IP address as net.IP holds it: 16 bytes, here eight 16-bit words; an
\* IPv4 address is stored in its IPv4-mapped form
NoIP == <<>>
V4(a, b, c, d) == <<0, 0, 0, 0, 0, 65535, a * 256 + b, c * 256 + d>>
IPv6loopback == <<0, 0, 0, 0, 0, 0, 0, 1>>

\* the declared base URLs of the model with what url.Parse makes of each:
\* whether it parses, its Scheme, its Host and its Hostname(), the latter
\* with the address net.ParseIP reads from it (NoIP when it is no literal)
BaseURL(raw, parses, scheme, host, name, ip) ==
    [raw |-> raw, parses |-> parses, scheme |-> scheme, host |-> host,
     hostname |-> [name |-> name, ip |-> ip]]

CoreBases ==
    { BaseURL("http://127.0.0.1:20123", TRUE, "http", "127.0.0.1:20123",
              "127.0.0.1", V4(127, 0, 0, 1)),
      BaseURL("http://localhost:9090", TRUE, "http", "localhost:9090",
              "localhost", NoIP),
      BaseURL("https://[::1]:9443", TRUE, "https", "[::1]:9443",
              "::1", IPv6loopback),
      BaseURL("http://[::ffff:127.0.0.1]:9090", TRUE, "http", "[::ffff:127.0.0.1]:9090",
              "::ffff:127.0.0.1", V4(127, 0, 0, 1)),
      BaseURL("http://example.com:1234", TRUE, "http", "example.com:1234",
              "example.com", NoIP),
      BaseURL("http://10.0.0.5:9090", TRUE, "http", "10.0.0.5:9090",
              "10.0.0.5", V4(10, 0, 0, 5)),
      BaseURL("http://127.0.0.1@example.com", TRUE, "http", "example.com",
              "example.com", NoIP),
      BaseURL("http://LOCALHOST:9090", TRUE, "http", "LOCALHOST:9090",
              "LOCALHOST", NoIP),
      BaseURL("localhost:20123", TRUE, "localhost", "", "", NoIP),
      BaseURL("//127.0.0.1:20123", TRUE, "", "127.0.0.1:20123",
              "127.0.0.1", V4(127, 0, 0, 1)),
      BaseURL("127.0.0.1:20123", FALSE, "", "", "", NoIP),
      BaseURL("http://[::1", FALSE, "", "", "", NoIP) }

RawBases == {b.raw : b \in CoreBases}
UrlParse(raw) == CHOOSE b \in CoreBases : b.raw = raw

\* net.ParseIP(host)
ParseIP(host) == host.ip

\* IP.To4: the four bytes of an IPv4 or IPv4-mapped address, else nil
To4(ip) ==
    IF SubSeq(ip, 1, 6) = <<0, 0, 0, 0, 0, 65535>>
    THEN <<ip[7] \div 256, ip[7] % 256, ip[8] \div 256, ip[8] % 256>>
    ELSE <<>>

\* IP.IsLoopback
IsLoopback(ip) ==
    IF To4(ip) # <<>> THEN To4(ip)[1] = 127 ELSE ip = IPv6loopback

\* a guard that lets every host through
isAnyHost(host) == TRUE

isLoopbackHost(host) ==
    \/ host.name = "localhost"
    \/ ParseIP(host) # NoIP /\ IsLoopback(ParseIP(host))

\* requests. upgrade: "no" for a plain request, "headers" when Connection
\* and Upgrade ask for a websocket (all websocket.IsWebSocketUpgrade looks
\* at), "handshake" when the request is a handshake Upgrade() accepts.
Request(route, authorization, token, upgrade, creds, xCoreBase, coreBase) ==
    [route |-> route, authorization |-> authorization, token |-> token,
     upgrade |-> upgrade, creds |-> creds, xCoreBase |-> xCoreBase,
     coreBase |-> coreBase]

Upgrades == {"no", "headers", "handshake"}
QueryTokens == {"", "t1", Forged}

LoginRequests ==
    {Request("login", NoHeader, "", "no", creds, "", "") :
        creds \in {"good", "bad", "malformed"}}

\* /api/logout and any other private route outside the gateway
AppRequests ==
    {Request(route, h, q, u, "", "", "") :
        route \in {"app", "logout"}, h \in AuthHeaders, q \in QueryTokens,
        u \in {"no", "headers"}}

WsRequests ==
    {Request("ws", h, q, u, "", "", "") :
        h \in {NoHeader, <<"Bearer", "t1">>}, q \in QueryTokens, u \in Upgrades}

\* how a /api/core/* request is authorized in the model: a plain request
\* with the header, a handshake with the query token, and others
CoreAuthMain ==
    {<<<<"Bearer", "t1">>, "", "no">>, <<NoHeader, "t1", "handshake">>}
CoreAuthMore ==
    {<<NoHeader, "", "no">>, <<NoHeader, "t1", "no">>, <<NoHeader, "t1", "headers">>}
\* how it declares its base: the X-Core-Base header, the coreBase query
\* parameter, both or neither
CoreDeclared ==
    {<<raw, "">> : raw \in RawBases} \cup
    {<<"", raw>> : raw \in {"", "http://127.0.0.1:20123", "http://example.com:1234"}} \cup
    {<<"http://example.com:1234", "http://127.0.0.1:20123">>}
CoreDeclaredMain ==
    {<<"http://127.0.0.1:20123", "">>, <<"http://example.com:1234", "">>}

CoreRequests ==
    {Request("core", a[1], a[2], a[3], "", d[1], d[2]) :
        a \in CoreAuthMain, d \in CoreDeclared} \cup
    {Request("core", a[1], a[2], a[3], "", d[1], d[2]) :
        a \in CoreAuthMore, d \in CoreDeclaredMain}

StaticRequests == {Request("static", NoHeader, "", "no", "", "", "")}

NoRequest == Request("", NoHeader, "", "no", "", "", "")

\* a test every request passes
IsAnyRequest(r) == TRUE
\* websocket.IsWebSocketUpgrade(r)
IsWebSocketUpgrade(r) == r.upgrade # "no"

\* responses: the status, the handler behind the middleware that ran, the
\* outbound attempt made, whether the connection was upgraded, the token a
\* login issued
NoOutbound == [kind |-> "none", scheme |-> "", host |-> ""]
Outbound(kind, scheme, host) == [kind |-> kind, scheme |-> scheme, host |-> host]
Response(status, ran, outbound, upgraded, token) ==
    [status |-> status, ran |-> ran, outbound |-> outbound,
     upgraded |-> upgraded, token |-> token]
Answer(status, ran) == Response(status, ran, NoOutbound, FALSE, "")

\* the validateToken call a request made
NoValidation == [called |-> FALSE, token |-> "", ok |-> FALSE]

\* no request served at this hour yet
NoneServed == [req |-> NoRequest, resp |-> Answer(0, None), validated |-> NoValidation]

InitHttp ==
    /\ sessions = [t \in {} |-> 0]
    /\ now = 0
    /\ nticks = 0
    /\ issuedAt = [t \in {} |-> 0]
    /\ revoked = {}
    /\ nclients = 0
    /\ last = NoneServed
    /\ tpc = "none"
    /\ ppc = [p \in {"in", "out"} |-> "none"]
    /\ pmsg = [p \in {"in", "out"} |-> ""]
    /\ errCh = <<>>
    /\ tconn = [c \in {"client", "backend"} |-> FALSE]
    /\ tfail = [c \in {"client", "backend"} |-> FALSE]
    /\ tin = [c \in {"client", "backend"} |-> <<>>]
    /\ tout = [c \in {"client", "backend"} |-> <<>>]
    /\ npeer = 0
    /\ tstat = [dialled |-> FALSE, upgraded |-> FALSE, status |-> 0]
    /\ inbound = [upgrade |-> "no", headers |-> <<>>, query |-> <<>>, sub |-> <<>>,
                  arrived |-> FALSE]
    /\ forwarded = [kind |-> "none", headers |-> <<>>, query |-> <<>>,
                    target |-> [scheme |-> "", host |-> "", path |-> <<>>]]
    /\ exec = "idle"
    /\ temitted = <<>>
    /\ stream = [ready |-> TRUE, bound |-> 0, readyState |-> <<>>,
                 lastCall |-> "none", ncalls |-> 0]
    /\ shut = [closed |-> FALSE, closes |-> 0, panicked |-> FALSE, ncalls |-> 0,
               pc |-> [k \in {"signal", "exit", "restart", "app"} |-> "idle"]]

\* time.Time.After
AfterOrAt(t, u) == t >= u
After(t, u) == t > u

\* validateToken: its result, and the store it leaves
validateToken(sess, token, clock) ==
    token \in DOMAIN sess /\ ~After(clock, sess[token])

validateEvicts(sess, token, clock) ==
    IF token \in DOMAIN sess /\ After(clock, sess[token])
    THEN MapDel(sess, token) ELSE sess

\* authMiddleware: the token it goes by
MiddlewareToken(r) ==
    IF getBearerToken(r.authorization) = "" /\ IsWebSocketUpgrade(r)
    THEN r.token
    ELSE getBearerToken(r.authorization)

\* http.Client.Do: only http and https reach the network; up tells whether
\* the upstream answers
proxyCoreHTTP(r, baseURL, up) ==
    IF baseURL.scheme \notin {"http", "https"}
    THEN Answer(502, "handleCoreProxy")
    ELSE Response(IF up THEN 200 ELSE 502, "handleCoreProxy",
                  Outbound("http", baseURL.scheme, baseURL.host), FALSE, "")

\* the scheme becomes ws or wss; Dial refuses any other scheme; after the
\* dial the client's own connection is upgraded, or the backend is closed
proxyCoreWebsocket(r, baseURL, up) ==
    LET scheme == CASE baseURL.scheme = "http" -> "ws"
                    [] baseURL.scheme = "https" -> "wss"
                    [] OTHER -> baseURL.scheme
    IN IF scheme \notin {"ws", "wss"}
       THEN Answer(502, "handleCoreProxy")
       ELSE IF ~up
       THEN Response(502, "handleCoreProxy",
                     Outbound("ws", scheme, baseURL.host), FALSE, "")
       ELSE IF r.upgrade = "handshake"
       THEN Response(101, "handleCoreProxy",
                     Outbound("ws", scheme, baseURL.host), TRUE, "")
       ELSE Response(400, "handleCoreProxy",
                     Outbound("ws", scheme, baseURL.host), FALSE, "")

handleCoreProxy(r, up) ==
    LET coreBase == IF r.xCoreBase # "" THEN r.xCoreBase ELSE r.coreBase
    IN IF coreBase = "" THEN Answer(400, "handleCoreProxy")
       ELSE IF ~UrlParse(coreBase).parses THEN Answer(400, "handleCoreProxy")
       ELSE IF ~isLoopbackHost(UrlParse(coreBase).hostname)
       THEN Answer(403, "handleCoreProxy")
       ELSE IF IsWebSocketUpgrade(r)
       THEN proxyCoreWebsocket(r, UrlParse(coreBase), up)
       ELSE proxyCoreHTTP(r, UrlParse(coreBase), up)

\* a logout that leaves the store as it is
RevokeNone(sess, token) == sess
\* delete(s.sessions, token)
Revoke(sess, token) == MapDel(sess, token)

\* what no step of this part touches
HttpFrame ==
    UNCHANGED <<busVars, clientVars, loopVars, emitVars, fault, muxVars, regVars, runVars,
                histVars, tunVars, fwdVars, execVars, lifeVars>>

Served(r, resp, validated) ==
    last' = [req |-> r, resp |-> resp, validated |-> validated]

\* time passes
Tick(d) ==
    /\ nticks < MaxTicks
    /\ nticks' = nticks + 1
    /\ now' = now + d
    /\ last' = NoneServed
    /\ UNCHANGED <<sessions, issuedAt, revoked, nclients>>
    /\ HttpFrame

\* POST /api/login (handleLogin); generateToken returns a token never
\* issued before
ServeLogin(r, token) ==
    /\ r \in LoginRequests /\ r.creds = "good"
    /\ token \in Tokens \ DOMAIN issuedAt
    /\ sessions' = MapPut(sessions, token, now + SessionTTL)
    /\ issuedAt' = MapPut(issuedAt, token, now)
    /\ Served(r, Response(200, "handleLogin", NoOutbound, FALSE, token), NoValidation)
    /\ UNCHANGED <<now, nticks, revoked, nclients>>
    /\ HttpFrame

\* POST /api/login with a body that does not decode (400) or with the wrong
\* credentials (401)
ServeLoginRefused(r) ==
    /\ r \in LoginRequests /\ r.creds # "good"
    /\ Served(r, Answer(IF r.creds = "malformed" THEN 400 ELSE 401, "handleLogin"),
              NoValidation)
    /\ UNCHANGED <<sessions, now, nticks, issuedAt, revoked, nclients>>
    /\ HttpFrame

\* authMiddleware turns the request away
ServeUnauthorized(r) ==
    /\ r \in AppRequests \cup CoreRequests
    /\ MiddlewareToken(r) = "" \/ ~validateToken(sessions, MiddlewareToken(r), now)
    /\ sessions' = IF MiddlewareToken(r) = "" THEN sessions
                   ELSE validateEvicts(sessions, MiddlewareToken(r), now)
    /\ Served(r, Answer(401, None),
              IF MiddlewareToken(r) = "" THEN NoValidation
              ELSE [called |-> TRUE, token |-> MiddlewareToken(r), ok |-> FALSE])
    /\ UNCHANGED <<now, nticks, issuedAt, revoked, nclients>>
    /\ HttpFrame

Authorized(r) ==
    MiddlewareToken(r) # "" /\ validateToken(sessions, MiddlewareToken(r), now)
Validated(r) == [called |-> TRUE, token |-> MiddlewareToken(r), ok |-> TRUE]

\* authMiddleware passes the request on to a private handler that is neither
\* the gateway nor logout
ServeApp(r) ==
    /\ r \in AppRequests /\ r.route = "app"
    /\ Authorized(r)
    /\ Served(r, Answer(200, "app"), Validated(r))
    /\ UNCHANGED <<sessions, now, nticks, issuedAt, revoked, nclients>>
    /\ HttpFrame

\* a logout that also closes the connections of the bus
ServeLogoutClosing(r) ==
    /\ r \in AppRequests /\ r.route = "logout"
    /\ Authorized(r)
    /\ IF getBearerToken(r.authorization) = ""
       THEN /\ Served(r, Answer(401, "handleLogout"), Validated(r))
            /\ UNCHANGED <<sessions, revoked, connClosed>>
       ELSE /\ sessions' = Revoke(sessions, getBearerToken(r.authorization))
            /\ revoked' = revoked \cup {getBearerToken(r.authorization)}
            /\ connClosed' = [c \in Conns |-> TRUE]
            /\ Served(r, Answer(200, "handleLogout"), Validated(r))
    /\ UNCHANGED <<now, nticks, issuedAt, nclients>>
    /\ UNCHANGED <<busVars, send, sendClosed, closedSig, events, teardowns, loopVars,
                   emitVars, fault, muxVars, regVars, runVars, histVars, tunVars,
                   fwdVars, execVars, lifeVars>>

\* authMiddleware passes the request on to handleLogout
ServeLogout(r) ==
    /\ r \in AppRequests /\ r.route = "logout"
    /\ Authorized(r)
    /\ IF getBearerToken(r.authorization) = ""
       THEN /\ Served(r, Answer(401, "handleLogout"), Validated(r))
            /\ UNCHANGED <<sessions, revoked>>
       ELSE /\ sessions' = Revoke(sessions, getBearerToken(r.authorization))
            /\ revoked' = revoked \cup {getBearerToken(r.authorization)}
            /\ Served(r, Answer(200, "handleLogout"), Validated(r))
    /\ UNCHANGED <<now, nticks, issuedAt, nclients>>
    /\ HttpFrame

\* authMiddleware passes the request on to handleCoreProxy
ServeCore(r, up) ==
    /\ r \in CoreRequests
    /\ Authorized(r)
    /\ Served(r, handleCoreProxy(r, up), Validated(r))
    /\ UNCHANGED <<sessions, now, nticks, issuedAt, revoked, nclients>>
    /\ HttpFrame

\* a /ws handler that upgrades before it looks at the token
ServeWSUnchecked(r, valid) == r.upgrade = "handshake"

\* whether Bus.ServeWS gets to newClient: handleWebsocket calls it only with
\* a valid token, and Upgrade fails on what is no handshake
ServeWS(r, valid) == valid /\ r.upgrade = "handshake"

\* /ws (handleWebsocket): the query token, then ServeWS, whose Upgrade
\* answers 400 to what is no handshake
ServeWs(r) ==
    /\ r \in WsRequests
    /\ IF r.token = ""
       THEN /\ Served(r, Answer(401, None), NoValidation)
            /\ UNCHANGED sessions
       ELSE /\ sessions' = validateEvicts(sessions, r.token, now)
            /\ Served(r,
                 IF ~validateToken(sessions, r.token, now) THEN Answer(401, None)
                 ELSE IF r.upgrade = "handshake"
                 THEN Response(101, "ServeWS", NoOutbound, TRUE, "")
                 ELSE Answer(400, "ServeWS"),
                 [called |-> TRUE, token |-> r.token,
                  ok |-> validateToken(sessions, r.token, now)])
    /\ nclients' = IF ServeWS(r, r.token # "" /\ validateToken(sessions, r.token, now))
                   THEN nclients + 1 ELSE nclients
    /\ nclients' <= MaxUpgrades
    /\ UNCHANGED <<now, nticks, issuedAt, revoked>>
    /\ HttpFrame

\* any route outside /api and /ws (spaHandler)
ServeStatic(r) ==
    /\ r \in StaticRequests
    /\ Served(r, Answer(200, "spaHandler"), NoValidation)
    /\ UNCHANGED <<sessions, now, nticks, issuedAt, revoked, nclients>>
    /\ HttpFrame

HttpNext ==
    \/ \E d \in TickSteps : Tick(d)
    \/ \E r \in LoginRequests, token \in Tokens : ServeLogin(r, token)
    \/ \E r \in LoginRequests : ServeLoginRefused(r)
    \/ \E r \in AppRequests \cup CoreRequests : ServeUnauthorized(r)
    \/ \E r \in AppRequests : ServeApp(r) \/ ServeLogout(r)
    \/ \E r \in CoreRequests, up \in BOOLEAN : ServeCore(r, up)
    \/ \E r \in WsRequests : ServeWs(r)
    \/ \E r \in StaticRequests : ServeStatic(r)

(***************************************************************************)
(* The gateway's WebSocket tunnel (part_003, proxyCoreWebsocket after the  *)
(* dial and the upgrade): two pumps, each copying messages one way, and    *)
(* the handler, which waits for the first error and closes both            *)
(* connections. Close makes a read or write in progress on the connection  *)
(* return an error.                                                        *)
(***************************************************************************)
\* errCh := make(chan error, 2)
ErrChCap == 2

Pumps == {"in", "out"}
TunnelConns == {"client", "backend"}
TunnelMsgs == {"m1", "m2"}

\* go proxyWebsocketPump(clientConn, backendConn, errCh);
\* go proxyWebsocketPump(backendConn, clientConn, errCh)
Src(p) == IF p = "in" THEN "client" ELSE "backend"
Dst(p) == IF p = "in" THEN "backend" ELSE "client"

\* a send on an unbuffered errCh: it needs the handler waiting to receive
CanReportUnbuffered(ch) == ch = <<>> /\ tpc = "recv"
\* errCh <- err on the buffered channel
CanReport(ch) == Len(ch) < ErrChCap

TunnelFrame ==
    UNCHANGED <<busVars, clientVars, loopVars, emitVars, fault, muxVars, httpVars,
                regVars, runVars, histVars, fwdVars, execVars, lifeVars>>

\* what the upstream answers to a handshake it does not accept: nothing
\* (0, the dial has no response), or a response with its status
DialResponses == {0, 200, 403}

\* websocket.DefaultDialer.Dial(wsURL.String(), header) returns backendConn
TunnelDial ==
    /\ tpc = "none"
    /\ tpc' = "dialled"
    /\ tstat' = [tstat EXCEPT !.dialled = TRUE]
    /\ UNCHANGED <<ppc, pmsg, errCh, tconn, tfail, tin, tout, npeer>>
    /\ TunnelFrame

\* Dial returns an error, with the upstream's response if it gave one: the
\* dialer has closed its connection; http.Error(w, message, status); return
TunnelDialFailed(resp) ==
    /\ tpc = "none"
    /\ tpc' = "failed"
    /\ tstat' = [tstat EXCEPT !.status = IF resp = 0 THEN 502 ELSE resp]
    /\ UNCHANGED <<ppc, pmsg, errCh, tconn, tfail, tin, tout, npeer>>
    /\ TunnelFrame

\* upgrader.Upgrade returns an error, having answered with an error status:
\* backendConn.Close(); return
TunnelUpgradeFailed ==
    /\ tpc = "dialled"
    /\ tpc' = "failed"
    /\ tstat' = [tstat EXCEPT !.status = 400]
    /\ tconn' = [tconn EXCEPT !["backend"] = TRUE]
    /\ UNCHANGED <<ppc, pmsg, errCh, tfail, tin, tout, npeer>>
    /\ TunnelFrame

\* the upgrade has succeeded: errCh is made, the pumps start
TunnelStart ==
    /\ tpc = "dialled"
    /\ tpc' = "recv"
    /\ ppc' = [p \in Pumps |-> "read"]
    /\ tstat' = [tstat EXCEPT !.upgraded = TRUE, !.status = 101]
    /\ UNCHANGED <<pmsg, errCh, tconn, tfail, tin, tout, npeer>>
    /\ TunnelFrame

\* a peer sends a message, which arrives at the gateway's end
PeerSends(c, msg) ==
    /\ tstat.upgraded /\ npeer < MaxTunnelMsgs
    /\ ~tfail[c] /\ ~tconn[c]
    /\ npeer' = npeer + 1
    /\ tin' = [tin EXCEPT ![c] = Append(@, msg)]
    /\ UNCHANGED <<tpc, ppc, pmsg, errCh, tconn, tfail, tout, tstat>>
    /\ TunnelFrame

\* a peer closes its end, or the network fails
PeerFails(c) ==
    /\ tstat.upgraded /\ ~tfail[c]
    /\ tfail' = [tfail EXCEPT ![c] = TRUE]
    /\ UNCHANGED <<tpc, ppc, pmsg, errCh, tconn, tin, tout, npeer, tstat>>
    /\ TunnelFrame

\* src.ReadMessage() returns a message
PumpRead(p) ==
    /\ ppc[p] = "read" /\ ~tconn[Src(p)] /\ tin[Src(p)] # <<>>
    /\ pmsg' = [pmsg EXCEPT ![p] = Head(tin[Src(p)])]
    /\ tin' = [tin EXCEPT ![Src(p)] = Tail(@)]
    /\ ppc' = [ppc EXCEPT ![p] = "write"]
    /\ UNCHANGED <<tpc, errCh, tconn, tfail, tout, npeer, tstat>>
    /\ TunnelFrame

\* src.ReadMessage() returns an error: the connection was closed here, or
\* it has failed and nothing is left to read
PumpReadError(p) ==
    /\ ppc[p] = "read"
    /\ tconn[Src(p)] \/ (tfail[Src(p)] /\ tin[Src(p)] = <<>>)
    /\ ppc' = [ppc EXCEPT ![p] = "report"]
    /\ UNCHANGED <<tpc, pmsg, errCh, tconn, tfail, tin, tout, npeer, tstat>>
    /\ TunnelFrame

\* dst.WriteMessage(msgType, msg) returns nil
PumpWrite(p) ==
    /\ ppc[p] = "write" /\ ~tconn[Dst(p)] /\ ~tfail[Dst(p)]
    /\ tout' = [tout EXCEPT ![Dst(p)] = Append(@, pmsg[p])]
    /\ pmsg' = [pmsg EXCEPT ![p] = ""]
    /\ ppc' = [ppc EXCEPT ![p] = "read"]
    /\ UNCHANGED <<tpc, errCh, tconn, tfail, tin, npeer, tstat>>
    /\ TunnelFrame

\* dst.WriteMessage(msgType, msg) returns an error
PumpWriteError(p) ==
    /\ ppc[p] = "write"
    /\ tconn[Dst(p)] \/ tfail[Dst(p)]
    /\ ppc' = [ppc EXCEPT ![p] = "report"]
    /\ UNCHANGED <<tpc, pmsg, errCh, tconn, tfail, tin, tout, npeer, tstat>>
    /\ TunnelFrame

\* errCh <- err; return
PumpReport(p) ==
    /\ ppc[p] = "report" /\ CanReport(errCh)
    /\ errCh' = Append(errCh, p)
    /\ ppc' = [ppc EXCEPT ![p] = "done"]
    /\ UNCHANGED <<tpc, pmsg, tconn, tfail, tin, tout, npeer, tstat>>
    /\ TunnelFrame

\* <-errCh
TunnelRecv ==
    /\ tpc = "recv" /\ errCh # <<>>
    /\ errCh' = Tail(errCh)
    /\ tpc' = "closeBackend"
    /\ UNCHANGED <<ppc, pmsg, tconn, tfail, tin, tout, npeer, tstat>>
    /\ TunnelFrame

\* backendConn.Close()
TunnelCloseBackend ==
    /\ tpc = "closeBackend"
    /\ tconn' = [tconn EXCEPT !["backend"] = TRUE]
    /\ tpc' = "closeClient"
    /\ UNCHANGED <<ppc, pmsg, errCh, tfail, tin, tout, npeer, tstat>>
    /\ TunnelFrame

\* clientConn.Close(); the handler returns
TunnelCloseClient ==
    /\ tpc = "closeClient"
    /\ tconn' = [tconn EXCEPT !["client"] = TRUE]
    /\ tpc' = "done"
    /\ UNCHANGED <<ppc, pmsg, errCh, tfail, tin, tout, npeer, tstat>>
    /\ TunnelFrame

PumpStep(p) == PumpReadError(p) \/ PumpWriteError(p) \/ PumpReport(p)
TunnelStep == TunnelRecv \/ TunnelCloseBackend \/ TunnelCloseClient

TunnelNext ==
    \/ TunnelDial
    \/ \E resp \in DialResponses : TunnelDialFailed(resp)
    \/ TunnelUpgradeFailed
    \/ TunnelStart
    \/ \E c \in TunnelConns, msg \in TunnelMsgs : PeerSends(c, msg)
    \/ \E c \in TunnelConns : PeerFails(c)
    \/ \E p \in Pumps : PumpRead(p) \/ PumpWrite(p)
    \/ \E p \in Pumps : PumpReadError(p) \/ PumpWriteError(p) \/ PumpReport(p)
    \/ TunnelRecv \/ TunnelCloseBackend \/ TunnelCloseClient

(***************************************************************************)
(* What the gateway forwards (part_003, handleCoreProxy, proxyCoreHTTP,    *)
(* proxyCoreWebsocket): the inbound request's headers and query            *)
(* parameters, each a map from names to values, and those of the request   *)
(* made to the upstream. A header's value is its list of words.            *)
(***************************************************************************)
hopHeaders ==
    {"Connection", "Proxy-Connection", "Keep-Alive", "Proxy-Authenticate",
     "Proxy-Authorization", "Te", "Trailer", "Transfer-Encoding", "Upgrade"}

\* the bases a client declares here, the upstream's credential
LoopBases == {"http://127.0.0.1:20123", "https://[::1]:9443"}
CoreBearer == "k1"

\* the sub-paths of /api/core/*, each the list of its parts between
\* slashes: proxies, //example.com/x, ../../x, a/../b and the empty path
SubPaths ==
    {<<"proxies">>, <<"", "", "example.com", "x">>, <<"..", "..", "x">>,
     <<"a", "..", "b">>, <<"">>}

\* the headers and query parameters a client may send, each with its value
HeaderNames == {"Authorization", "X-Core-Base", "X-Core-Bearer", "Accept"}
QueryNames == {"token", "coreBase", "coreBearer", "q"}
HeaderValues(base) ==
    [n \in HeaderNames |->
        CASE n = "Authorization" -> <<"Bearer", "t1">>
          [] n = "X-Core-Base" -> <<base>>
          [] n = "X-Core-Bearer" -> <<CoreBearer>>
          [] OTHER -> <<"json">>]
QueryValues(base) ==
    [n \in QueryNames |->
        CASE n = "token" -> "t1"
          [] n = "coreBase" -> base
          [] n = "coreBearer" -> CoreBearer
          [] OTHER -> "1"]

Restrict(f, S) == [k \in DOMAIN f \cap S |-> f[k]]

\* a plain request, or a websocket handshake with its Upgrade header
CoreInbound ==
    {[upgrade |-> u,
      headers |-> IF u = "no" THEN Restrict(HeaderValues(base), H)
                  ELSE MapPut(Restrict(HeaderValues(base), H), "Upgrade", <<"websocket">>),
      query |-> Restrict(QueryValues(base), Q),
      sub |-> sub,
      arrived |-> TRUE] :
        u \in {"no", "handshake"}, base \in LoopBases, sub \in SubPaths,
        H \in SUBSET HeaderNames, Q \in SUBSET QueryNames}

NoTarget == [scheme |-> "", host |-> "", path |-> <<>>]
NoInbound ==
    [upgrade |-> "no", headers |-> <<>>, query |-> <<>>, sub |-> <<>>, arrived |-> FALSE]
NoForward == [kind |-> "none", headers |-> <<>>, query |-> <<>>, target |-> NoTarget]
Refused == [kind |-> "refused", headers |-> <<>>, query |-> <<>>, target |-> NoTarget]

\* r.Header.Get(name), with the words of the value
HeaderGet(in, name) == IF name \in DOMAIN in.headers THEN in.headers[name] ELSE <<>>
\* r.URL.Query().Get(name)
QueryGet(in, name) == IF name \in DOMAIN in.query THEN in.query[name] ELSE ""

\* the request as the middleware and the gateway's checks see it
AsRequest(in) ==
    Request("core", HeaderGet(in, "Authorization"), QueryGet(in, "token"), in.upgrade, "",
            IF HeaderGet(in, "X-Core-Base") = <<>> THEN "" ELSE HeaderGet(in, "X-Core-Base")[1],
            QueryGet(in, "coreBase"))

\* query.Del("coreBase"); query.Del("coreBearer"); query.Del("token")
targetQuery(in) ==
    Restrict(in.query, DOMAIN in.query \ {"coreBase", "coreBearer", "token"})

\* bearer := r.Header.Get("X-Core-Bearer"), else the coreBearer parameter
bearerOf(in) ==
    IF HeaderGet(in, "X-Core-Bearer") # <<>> THEN HeaderGet(in, "X-Core-Bearer")[1]
    ELSE QueryGet(in, "coreBearer")

\* the base the request declares: X-Core-Base, else the coreBase parameter
declaredBase(in) ==
    IF HeaderGet(in, "X-Core-Base") # <<>> THEN HeaderGet(in, "X-Core-Base")[1]
    ELSE QueryGet(in, "coreBase")

\* if !strings.HasPrefix(pathParam, "/") { pathParam = "/" + pathParam }
withSlash(sub) == IF Len(sub) >= 2 /\ sub[1] = "" THEN sub ELSE <<"">> \o sub

\* a reference made by url.Parse(pathParam): what follows a leading // is
\* its host
relParsed(sub) ==
    LET path == withSlash(sub)
    IN IF Len(path) >= 3 /\ path[2] = ""
       THEN [scheme |-> "", host |-> path[3],
             path |-> <<"">> \o SubSeq(path, 4, Len(path))]
       ELSE [scheme |-> "", host |-> "", path |-> path]
\* rel := &url.URL{Path: pathParam, RawQuery: query.Encode()}
rel(sub) == [scheme |-> "", host |-> "", path |-> withSlash(sub)]

\* the dot segments of a path taken out: . is dropped, .. drops the part
\* before it
RECURSIVE removeDots(_, _)
removeDots(rest, out) ==
    IF rest = <<>> THEN out
    ELSE IF Head(rest) = "." THEN removeDots(Tail(rest), out)
    ELSE IF Head(rest) = ".."
    THEN removeDots(Tail(rest),
                    IF out = <<>> THEN out ELSE SubSeq(out, 1, Len(out) - 1))
    ELSE removeDots(Tail(rest), Append(out, Head(rest)))

\* url.resolvePath: an absolute ref replaces the base's path, a relative
\* one replaces its last part
resolvePath(base, ref) ==
    LET full == IF ref = <<>> THEN base
                ELSE IF ref[1] = "" /\ Len(ref) >= 2 THEN ref
                ELSE IF base = <<>> THEN <<"">> \o ref
                ELSE SubSeq(base, 1, Len(base) - 1) \o ref
    IN IF full = <<>> THEN <<>> ELSE <<"">> \o removeDots(Tail(full), <<>>)

\* URL.ResolveReference: a reference with a scheme or a host keeps its own
\* host; any other takes the base's scheme and host
ResolveReference(u, ref) ==
    IF ref.scheme # "" \/ ref.host # ""
    THEN [scheme |-> IF ref.scheme = "" THEN u.scheme ELSE ref.scheme,
          host |-> ref.host,
          path |-> resolvePath(ref.path, <<>>)]
    ELSE [scheme |-> u.scheme, host |-> u.host, path |-> resolvePath(<<>>, ref.path)]

\* targetURL := baseURL.ResolveReference(rel)
targetURL(in) == ResolveReference(UrlParse(declaredBase(in)), rel(in.sub))

\* switch wsURL.Scheme { case "http": "ws"; case "https": "wss" }
wsScheme(scheme) ==
    CASE scheme = "http" -> "ws"
      [] scheme = "https" -> "wss"
      [] OTHER -> scheme

\* copyHeaders into the empty header of a new request
copyHeaders(src) == Restrict(src, DOMAIN src \ hopHeaders)

\* proxyCoreHTTP: the inbound headers are copied, and Authorization is set
\* when there is a bearer
forwardHTTP(in) ==
    [kind |-> "http",
     target |-> targetURL(in),
     query |-> targetQuery(in),
     headers |-> IF bearerOf(in) # ""
                 THEN MapPut(copyHeaders(in.headers), "Authorization",
                             <<"Bearer", bearerOf(in)>>)
                 ELSE copyHeaders(in.headers)]

\* proxyCoreWebsocket: a fresh header, with Authorization when there is a
\* bearer
forwardWS(in) ==
    [kind |-> "ws",
     target |-> [targetURL(in) EXCEPT !.scheme = wsScheme(@)],
     query |-> targetQuery(in),
     headers |-> IF bearerOf(in) # ""
                 THEN [n \in {"Authorization"} |-> <<"Bearer", bearerOf(in)>>]
                 ELSE <<>>]

ForwardFrame ==
    UNCHANGED <<busVars, clientVars, loopVars, emitVars, fault, muxVars, httpVars,
                regVars, runVars, histVars, tunVars, execVars, lifeVars>>

\* a request for /api/core/* arrives
CoreArrives(in) ==
    /\ in \in CoreInbound /\ ~inbound.arrived
    /\ inbound' = in
    /\ forwarded' = NoForward
    /\ ForwardFrame

\* the middleware and handleCoreProxy let it through: the request to the
\* upstream is made
CoreForward ==
    /\ inbound.arrived /\ forwarded = NoForward
    /\ Authorized(AsRequest(inbound))
    /\ handleCoreProxy(AsRequest(inbound), TRUE).outbound # NoOutbound
    /\ forwarded' = IF IsWebSocketUpgrade(AsRequest(inbound))
                    THEN forwardWS(inbound) ELSE forwardHTTP(inbound)
    /\ UNCHANGED inbound
    /\ ForwardFrame

\* the middleware or handleCoreProxy turns it away
CoreRefuse ==
    /\ inbound.arrived /\ forwarded = NoForward
    /\ \/ ~Authorized(AsRequest(inbound))
       \/ handleCoreProxy(AsRequest(inbound), TRUE).outbound = NoOutbound
    /\ forwarded' = Refused
    /\ UNCHANGED inbound
    /\ ForwardFrame

ForwardNext ==
    \/ \E r \in LoginRequests, token \in Tokens : ServeLogin(r, token)
    \/ \E in \in CoreInbound : CoreArrives(in)
    \/ CoreForward
    \/ CoreRefuse

(***************************************************************************)
(* ExecBackground (part_008): the page registers its listeners, posts      *)
(* /exec/background, and the task the server starts emits its output and   *)
(* end events through Bus.Emit. outEvent is "x" with onOut = h1, endEvent  *)
(* is "y" with the wrapper of onEnd = h2.                                  *)
(***************************************************************************)
outEvent == "x"
endEvent == "y"

ExecFrame ==
    UNCHANGED <<mu, clientVars, loopVars, emitVars, fault, httpVars, regVars, runVars,
                histVars, tunVars, fwdVars, lifeVars>>

\* outEvent && EventsOff(outEvent); EventsOff(endEvent)
ExecOff(m) == EventsOff(EventsOff(m, outEvent, None), endEvent, None)

\* ExecBackground up to the await: EventsOn(outEvent, onOut),
\* EventsOn(endEvent, ...), then the POST is sent
PageExecBackground ==
    /\ exec = "idle" /\ CanConnect(page)
    /\ page' = EventsOn(EventsOn(page, outEvent, "h1"), endEvent, "h2")
    /\ exec' = "posted"
    /\ UNCHANGED <<subscribers, srvOpen, inbox, calls, expect, bornOpen, ncalls, nsrv,
                   temitted>>
    /\ ExecFrame

\* the server's handler of /exec/background starts the task
SrvExec ==
    /\ exec = "posted"
    /\ exec' = "running"
    /\ UNCHANGED <<muxVars, subscribers, temitted>>
    /\ ExecFrame

\* the POST fails: the catch block takes both listeners away
ExecFailed ==
    /\ exec = "posted"
    /\ exec' = "failed"
    /\ page' = ExecOff(page)
    /\ UNCHANGED <<subscribers, srvOpen, inbox, calls, expect, bornOpen, ncalls, nsrv,
                   temitted>>
    /\ ExecFrame

\* the task emits a line of output, or its end: Bus.Emit queues the message
\* for the connections subscribed to the event at that moment
TaskEmit(event) ==
    /\ exec = "running" /\ Len(temitted) < MaxTaskEmits
    /\ temitted' = Append(temitted, event)
    /\ exec' = IF event = endEvent THEN "ended" ELSE exec
    /\ inbox' = [s \in Sockets |->
                   IF s \in EmitTargets(subscribers, event)
                   THEN Append(inbox[s], Marshal(event, <<"1", "a">>)) ELSE inbox[s]]
    /\ UNCHANGED <<page, subscribers, srvOpen, calls, expect, bornOpen, ncalls, nsrv>>
    /\ ExecFrame

\* socket.onmessage of socket s; the end listener calls EventsOff for both
\* events before onEnd
ExecMessage(s) ==
    /\ page.readyState[s] = "OPEN" /\ inbox[s] # <<>>
    /\ LET data == Head(inbox[s])
           callbacks == IF ParseEvent(data) \in DOMAIN page.handlers
                        THEN page.handlers[ParseEvent(data)] ELSE {}
       IN /\ calls' = [k \in Keys |->
                         IF k[1] = ParseEvent(data) /\ k[2] \in callbacks
                         THEN Append(calls[k], ParsePayload(data)) ELSE calls[k]]
          /\ page' = IF ParseEvent(data) = endEvent /\ "h2" \in callbacks
                     THEN ExecOff(page) ELSE page
    /\ inbox' = [inbox EXCEPT ![s] = Tail(@)]
    /\ UNCHANGED <<subscribers, srvOpen, expect, bornOpen, ncalls, nsrv, execVars>>
    /\ ExecFrame

ExecNext ==
    \/ PageExecBackground
    \/ SrvExec
    \/ ExecFailed
    \/ \E event \in {outEvent, endEvent} : TaskEmit(event)
    \/ \E s \in Sockets : ExecMessage(s)
    \/ TimerFires
    \/ \E s \in Sockets : WsOpen(s)
    \/ \E s \in Sockets, failed \in BOOLEAN : WsClose(s, failed)
    \/ \E s \in Sockets : SrvRead(s)

(***************************************************************************)
(* Specifications.                                                         *)
(***************************************************************************)
(***************************************************************************)
(* A named stream of WebSockets.createWS (frontend/src/utils/              *)
(* websockets.ts): wsMap[name] with its ready flag and its close function, *)
(* which is the initial one until open() has made a socket and bound close *)
(* to it. Sockets are numbered in the order they are made.                 *)
(***************************************************************************)
MaxStreamCalls == 5

LifeFrame ==
    UNCHANGED <<busVars, clientVars, loopVars, emitVars, fault, muxVars, httpVars,
                regVars, runVars, histVars, tunVars, fwdVars, execVars>>

\* open(): if (!wsMap[name].ready) return; new WebSocket(...); close is
\* bound to the new socket; ready = false
open(m) ==
    IF ~m.ready THEN m
    ELSE [m EXCEPT !.readyState = Append(@, "CONNECTING"),
                   !.bound = Len(m.readyState) + 1,
                   !.ready = FALSE]

\* wsMap[name].close(): the initial close sets ready = false; the close
\* open() has bound calls ws.close() and sets ready = true
close(m) ==
    IF m.bound = 0 THEN [m EXCEPT !.ready = FALSE]
    ELSE [m EXCEPT !.readyState[m.bound] =
                       IF @ \in {"CONNECTING", "OPEN"} THEN "CLOSING" ELSE @,
                   !.ready = TRUE]

\* connect(): beforeConnect(); every stream's open()
StreamConnect ==
    /\ stream.ncalls < MaxStreamCalls
    /\ stream' = [open(stream) EXCEPT !.lastCall = "connect", !.ncalls = @ + 1]
    /\ UNCHANGED shut
    /\ LifeFrame

\* disconnect(): every stream's close()
StreamDisconnect ==
    /\ stream.ncalls < MaxStreamCalls
    /\ stream' = [close(stream) EXCEPT !.lastCall = "disconnect", !.ncalls = @ + 1]
    /\ UNCHANGED shut
    /\ LifeFrame

\* the connection of socket s is established
StreamOpens(s) ==
    /\ s \in DOMAIN stream.readyState /\ stream.readyState[s] = "CONNECTING"
    /\ stream' = [stream EXCEPT !.readyState[s] = "OPEN"]
    /\ UNCHANGED shut
    /\ LifeFrame

\* socket s is closed, by a failure, by the server or as ws.close() ends:
\* ws.onerror and ws.onclose set ready = true
StreamCloses(s) ==
    /\ s \in DOMAIN stream.readyState /\ stream.readyState[s] # "CLOSED"
    /\ stream' = [stream EXCEPT !.readyState[s] = "CLOSED", !.ready = TRUE]
    /\ UNCHANGED shut
    /\ LifeFrame

StreamNext ==
    \/ StreamConnect
    \/ StreamDisconnect
    \/ \E s \in 1..MaxStreamCalls : StreamOpens(s) \/ StreamCloses(s)

(***************************************************************************)
(* Server.Shutdown (part_003:177-184), called by the signal handler, by    *)
(* the goroutines of /exit and /restart and as App.Exit, each call in a    *)
(* goroutine of its own.                                                   *)
(***************************************************************************)
MaxShutdownCalls == 4
Callers == {"signal", "exit", "restart", "app"}

\* a caller enters Shutdown
ShutdownCall(k) ==
    /\ ~shut.panicked /\ shut.pc[k] = "idle" /\ shut.ncalls < MaxShutdownCalls
    /\ shut' = [shut EXCEPT !.pc[k] = "select", !.ncalls = @ + 1]
    /\ UNCHANGED stream
    /\ LifeFrame

\* select { case <-s.shutdown: return; default: ... }: the receive is ready
\* when the channel is closed
ShutdownSelect(k) ==
    /\ ~shut.panicked /\ shut.pc[k] = "select"
    /\ shut' = [shut EXCEPT !.pc[k] = IF shut.closed THEN "idle" ELSE "default"]
    /\ UNCHANGED stream
    /\ LifeFrame

\* close(s.shutdown): closing a closed channel is a run-time panic
ShutdownClose(k) ==
    /\ ~shut.panicked /\ shut.pc[k] = "default"
    /\ shut' = IF shut.closed
               THEN [shut EXCEPT !.panicked = TRUE]
               ELSE [shut EXCEPT !.closed = TRUE, !.closes = @ + 1, !.pc[k] = "idle"]
    /\ UNCHANGED stream
    /\ LifeFrame

ShutdownNext ==
    \E k \in Callers : ShutdownCall(k) \/ ShutdownSelect(k) \/ ShutdownClose(k)

\* sessions and a connection of the bus together: logins, logouts, the
\* clock and upgrades on /ws; once a connection has been upgraded, its
\* subscribe frames, the Emit calls and its writer
SessionNext ==
    \/ \E d \in TickSteps : Tick(d)
    \/ \E r \in LoginRequests, token \in Tokens : ServeLogin(r, token)
    \/ \E r \in AppRequests : ServeLogout(r)
    \/ \E r \in WsRequests : ServeWs(r)
    \/ \E c \in Conns, event \in Events :
          nclients > 0 /\ ReadFrame(c, "subscribe", event)
    \/ \E c \in Conns : nclients > 0 /\ SubscribeDo(c)
    \/ \E e \in Emitters, event \in Events :
          nclients > 0 /\ EmitBegin(e, event, <<"1", "a">>)
    \/ \E e \in Emitters, c \in Conns : nclients > 0 /\ QueueSend(e, c)
    \/ \E e \in Emitters : nclients > 0 /\ (EmitLoopEnd(e) \/ EmitReturn(e))
    \/ \E c \in Conns : nclients > 0 /\ WriteMessage(c, TRUE)

Init == InitBus /\ InitReg /\ InitMux(FALSE) /\ InitHttp

\* the page starts with or without a token in its auth store
InitPage ==
    InitBus /\ InitReg /\ (\E token \in BOOLEAN : InitMux(token)) /\ InitHttp

Spec == Init /\ [][Next]_vars

InitFair == InitOneLive /\ InitReg /\ InitMux(FALSE) /\ InitHttp

\* The Go scheduler runs every runnable goroutine: an emitter that can go on
\* does, and so do close() and a dispatch. Frames, errors and writes depend
\* on the peer and carry no fairness. One connection is live.
FairSpec ==
    /\ InitFair /\ [][Next]_vars
    /\ \A e \in Emitters : WF_vars(EmitterStep(e))
    /\ \A g \in Loops : WF_vars(CloseStep(g))
    /\ \A c \in Conns : WF_vars(DispatchStep(c))

\* one connection is live; it is the one /ws upgrades
SessionSpec == InitFair /\ [][SessionNext]_vars

StreamSpec == Init /\ [][StreamNext]_vars

ShutdownSpec == Init /\ [][ShutdownNext]_vars

\* the bus with every connection subscribed to every event
InitSub == InitSubscribed /\ InitReg /\ InitMux(FALSE) /\ InitHttp

SubSpec == InitSub /\ [][Next]_vars

InitPing == InitOneSubscribed /\ InitReg /\ InitMux(FALSE) /\ InitHttp

\* FairSpec for a peer that answers no ping: the read deadline set at the
\* start of readLoop is never extended, so a reader waiting in ReadJSON gets
\* an error. conn.WriteMessage has no deadline and ends when the peer takes
\* the data, so the writer's steps carry no fairness.
PingSpec ==
    /\ InitPing /\ [][Next]_vars
    /\ \A e \in Emitters : WF_vars(EmitterStep(e))
    /\ \A g \in Loops : WF_vars(CloseStep(g))
    /\ \A c \in Conns : WF_vars(DispatchStep(c))
    /\ \A c \in Conns : WF_vars(ReadError(c))

\* A goroutine that can take the lock does, and so does a dispatch; when an
\* operation ends depends on the network.
OnSpec ==
    /\ Init /\ [][OnNext]_vars
    /\ \A o \in Ops : WF_vars(OpUnsubscribe(o))
    /\ \A c \in Conns : WF_vars(EmitFromClient(c))
    /\ \A e \in Emitters : WF_vars(EmitLoopEnd(e) \/ EmitReturn(e))

MuxSpec == InitPage /\ [][MuxNext]_vars

\* the page after EventsOn and closeEvents
InitClosing == InitBus /\ InitReg /\ InitMuxClosing /\ InitHttp

MuxClosingSpec == InitClosing /\ [][MuxNext]_vars

\* the page after some connection attempts have failed
InitBackoff == InitBus /\ InitReg /\ InitMuxBackoff /\ InitHttp

BackoffSpec == InitBackoff /\ [][MuxNext]_vars

HttpSpec == Init /\ [][HttpNext]_vars

ForwardSpec == Init /\ [][ForwardNext]_vars

\* the page holds a token
InitExec == InitBus /\ InitReg /\ InitMux(TRUE) /\ InitHttp

ExecSpec == InitExec /\ [][ExecNext]_vars

\* the connections have subscribed to nothing yet, or to every event
InitRegistry ==
    (InitBus \/ InitSubscribed) /\ InitReg /\ InitMux(FALSE) /\ InitHttp

RegistrySpec == InitRegistry /\ [][RegistryNext]_vars

\* The Go scheduler runs the handler and a pump that can report or whose
\* call has failed; a read or write that succeeds depends on the peers.
TunnelSpec ==
    /\ Init /\ [][TunnelNext]_vars
    /\ \A p \in Pumps : WF_vars(PumpStep(p))
    /\ WF_vars(TunnelStep)

(***************************************************************************)
(* Claims about the event bus.                                             *)
(***************************************************************************)
\* the frame {event: E, payload: P} as it goes on the wire
WireFrame(event, payload) ==
    IF Len(payload) = 0 THEN [k \in {"event"} |-> <<event>>]
    ELSE [k \in {"event", "payload"} |-> IF k = "event" THEN <<event>> ELSE payload]

C2_ClosedNotSubscribed ==
    \A c \in Conns : sendClosed[c] =>
        \A ev \in DOMAIN subscribers : c \notin subscribers[ev]

\* C3: teardown runs once per connection and no invocation of close()
\* faults.
C3_TeardownOnce ==
    /\ fault # "close of closed channel"
    /\ \A c \in Conns : teardowns[c] <= 1

\* C4: an Emit does not get past a subscriber whose queue is full unless
\* the subscriber is closed or its writer takes a message; it parks only on
\* a full queue of an open connection; when the connection is closed the
\* parked call leaves the queue as it is and goes on; and a call parked on
\* its last subscriber returns if that subscriber is ever closed (or the
\* process has ended).
C4_ParkedOnlyOnFull ==
    \A e \in Emitters, c \in Conns : ecur[e] = c =>
        /\ Len(send[c]) = QueueCap /\ ~closedSig[c] /\ c \in etodo[e]
        /\ e \in mu

C4_BlocksWhileFull ==
    \A e \in Emitters, c \in Conns :
        (c \in etodo[e] /\ Len(send[c]) = QueueCap /\ c \notin etodo'[e]) =>
            closedSig'[c] \/ \E ok \in BOOLEAN : WriteMessage(c, ok)

C4_ClosedWakes ==
    \A e \in Emitters, c \in Conns :
        (ecur[e] = c /\ closedSig'[c]) =>
            /\ ecur'[e] = None /\ c \notin etodo'[e]
            /\ send'[c] = send[c] /\ eadded'[e][c] = eadded[e][c]

C4_Backpressure ==
    /\ []C4_ParkedOnlyOnFull
    /\ [][C4_BlocksWhileFull /\ C4_ClosedWakes]_vars
    /\ \A e \in Emitters, c \in Conns :
          []((ecur[e] = c /\ etodo[e] = {c}) =>
                ([]~closedSig[c] \/ <>(epc[e] = "idle" \/ ~Running)))

C4_Witness ==
    \E e \in Emitters, c \in Conns :
        /\ epc[e] = "return" /\ ewoken[e] = "closed"
        /\ SubsOf(subscribers, emsg[e].event) = {c}
        /\ closedSig[c] /\ Len(send[c]) = QueueCap /\ eadded[e][c] = <<>>

\* C11: no Emit call is parked on a subscriber's full queue while it holds
\* the read lock of the registry.
C11_NoBlockUnderLock ==
    \A e \in Emitters : ecur[e] # None => e \notin mu

\* C12: while an Emit is parked on the full queue of connection A, it has no
\* other subscriber left to serve, and no other connection's Subscribe or
\* Unsubscribe is waiting for the lock that the parked call holds.
C12_SlowOnlySelf ==
    \A e \in Emitters, a \in Conns : ecur[e] = a =>
        /\ etodo[e] \subseteq {a}
        /\ \A b \in Conns \ {a} :
              pc[Reader(b)] \in {"subscribe", "unsubscribe"} => CanLock

\* connection c is Closed: in no subscriber set, outbound queue closed,
\* socket closed
IsClosed(c) ==
    /\ closedSig[c] /\ sendClosed[c] /\ connClosed[c]
    /\ \A ev \in DOMAIN subscribers : c \notin subscribers[ev]

\* C13: no step takes a connection out of Closed.
C13_ClosedIsFinal ==
    [][\A c \in Conns : IsClosed(c) => IsClosed(c)']_vars

\* a is b with some of its elements left out
RECURSIVE IsSubseq(_, _)
IsSubseq(a, b) ==
    IF a = <<>> THEN TRUE
    ELSE IF b = <<>> THEN FALSE
    ELSE IF Head(a) = Head(b) THEN IsSubseq(Tail(a), Tail(b))
    ELSE IsSubseq(a, Tail(b))

C18_SilentPeerDropped ==
    \A c \in Conns : <>(closedSig[c] \/ ~Running)

(***************************************************************************)
(* Claims about the handler registry.                                      *)
(***************************************************************************)
\* the function On returned for closure i has been called and has returned
Cancelled(i) == \E p \in DOMAIN hlog : hlog[p] = LogOff(i)

\* the handler instances registered for the event and not cancelled
LiveFor(event) ==
    {<<closures[i].id, closures[i].handler>> :
        i \in {j \in DOMAIN closures : closures[j].event = event /\ ~Cancelled(j)}}

\* the reader of c is running emitFromClient in this step
Dispatches(c) == pc[Reader(c)] = "emit" /\ pc'[Reader(c)] = "read"

\* C14: an event emitted by a client invokes exactly the handler instances
\* registered for that event whose cancel function has not returned: a
\* cancelled one is never invoked, the others for the same event still are,
\* and at every moment the registry holds, for every event, exactly the
\* instances registered for it and not cancelled.
C14_ExactDeregistration ==
    /\ [][\A c \in Conns : Dispatches(c) => invoked' = LiveFor(rframe[c].event)]_vars
    /\ [](\A ev \in Events : emitFromClient(handlers, ev) = LiveFor(ev))

\* H1 then H2 were registered for one event, H1 was cancelled, and a client
\* emit of the event has invoked H2 alone
C14_Witness ==
    \E i, j \in DOMAIN closures :
        /\ i < j /\ closures[i].event = closures[j].event
        /\ closures[i].handler = "H1" /\ closures[j].handler = "H2"
        /\ Cancelled(i) /\ ~Cancelled(j)
        /\ invoked = {<<closures[j].id, "H2">>}

\* C15: a call of a cancel function that has already returned once leaves
\* the registry as it is, and no two On calls ever got the same id.
C15_CancelTwiceNoop ==
    /\ [][\A i \in DOMAIN closures :
            (hlog' = Append(hlog, LogOff(i)) /\ Cancelled(i)) =>
                handlers' = handlers]_vars
    /\ [](\A i, j \in DOMAIN closures : i # j => closures[i].id # closures[j].id)

\* a cancel function was called, another handler was registered for the same
\* event, the cancel function was called again, and the other handler is
\* still registered
C15_Witness ==
    \E p, q, r \in DOMAIN hlog : \E i, j \in DOMAIN closures :
        /\ p < q /\ q < r
        /\ hlog[p] = LogOff(i) /\ hlog[q] = LogOn(j) /\ hlog[r] = LogOff(i)
        /\ closures[i].event = closures[j].event
        /\ closures[j].id \in DOMAIN HandlersOf(handlers, closures[j].event)

\* the handler of operation o is in the registry
HasHandler(o) ==
    \E ev \in DOMAIN handlers : \E id \in DOMAIN handlers[ev] : handlers[ev][id] = o

\* C17: while an operation called with a non-empty CancelId has not
\* returned, its handler is registered for CancelId, and a client emit of
\* CancelId dispatched meanwhile cancels its context; once the operation
\* has returned its handler is out of the registry and a client emit
\* invokes nothing of it; a dispatch always completes and a deferred
\* unsubscribe always returns.
C17_CancelForDuration ==
    /\ [](\A o \in Ops :
            /\ (opc[o] # "idle" /\ ocancel[o] # "") =>
                   \E id \in DOMAIN HandlersOf(handlers, ocancel[o]) :
                       handlers[ocancel[o]][id] = o
            /\ opc[o] = "idle" => ~HasHandler(o))
    /\ [][\A c \in Conns : Dispatches(c) => \A o \in Ops :
            /\ (opc[o] # "idle" /\ ocancel[o] # "" /\ rframe[c].event = ocancel[o]) =>
                   octx'[o]
            /\ opc[o] = "idle" =>
                   /\ octx'[o] = octx[o]
                   /\ \A h \in invoked' : h[2] # o]_vars
    /\ \A o \in Ops : (opc[o] = "unsub") ~> (opc[o] = "idle")
    /\ \A c \in Conns : (pc[Reader(c)] = "emit") ~> (pc[Reader(c)] = "read")

(***************************************************************************)
(* Claims about the page's multiplexer.                                    *)
(***************************************************************************)
\* socket s is the page's socket, open at both ends, with nothing on its way
\* to the page
Settled(s) ==
    /\ page.socket = s /\ page.readyState[s] = "OPEN" /\ s \in srvOpen
    /\ inbox[s] = <<>>

\* the handler has been called with the arguments of the Emit that made the
\* call due
Reached(k) ==
    /\ Len(calls[k]) >= expect[k].n
    /\ \E i \in (expect[k].base + 1)..Len(calls[k]) : calls[k][i] = expect[k].args

\* C5: a handler registered with EventsOn for an event that the server
\* emits while the page's socket is open and stable and the server has read
\* every frame the page sent has, once the page has received what the server
\* wrote, been called exactly once for that Emit, with its arguments.
C5_RoundTrip ==
    \A k \in Keys :
        (expect[k].sock # 0 /\ Settled(expect[k].sock)) =>
            (Reached(k) /\ Len(calls[k]) = expect[k].n)

\* C6: when a socket opens as the page's socket, the page sends on it a
\* subscribe frame for every event that has a handler; so once the server
\* has read the frames of the page's open socket, that connection is
\* subscribed to every event whose entry was made before the socket opened;
\* and an Emit of such an event made then reaches the handlers registered
\* for it, once the page has received what the server wrote.
C6_Resubscribes ==
    /\ [][\A s \in Sockets :
            (page.readyState[s] = "CONNECTING" /\ page'.readyState[s] = "OPEN"
                /\ page.socket = s) =>
            \A ev \in DOMAIN page.handlers :
                Frame("subscribe", ev, <<>>) \in Range(page'.sent[s])]_vars
    /\ [](\A ev \in DOMAIN page.handlers :
            (IsOpen(page) /\ page.socket \in srvOpen
                /\ page.sent[page.socket] = <<>> /\ bornOpen[ev] # page.socket) =>
            page.socket \in SubsOf(subscribers, ev))
    /\ [](\A k \in Keys :
            (expect[k].sock # 0 /\ Settled(expect[k].sock)
                /\ bornOpen[k[1]] # expect[k].sock) => Reached(k))

\* a handler whose event was entered under a socket that has since dropped
\* has been called for an Emit made over the socket that replaced it
C6_Witness ==
    \E k \in Keys :
        /\ expect[k].sock # 0 /\ Settled(expect[k].sock)
        /\ bornOpen[k[1]] \notin {0, expect[k].sock}
        /\ page.readyState[bornOpen[k[1]]] = "CLOSED"
        /\ Reached(k)

\* C20: at most one of the page's sockets is CONNECTING or OPEN.
C20_OneLiveSocket ==
    Cardinality({s \in Sockets : page.readyState[s] \in {"CONNECTING", "OPEN"}}) <= 1

(***************************************************************************)
(* Claims about the HTTP server.                                           *)
(***************************************************************************)
\* the base URL a gateway request declares
Declared(r) == IF r.xCoreBase # "" THEN r.xCoreBase ELSE r.coreBase

\* the literal localhost, an address of 127.0.0.0/8 (as four bytes or in its
\* IPv4-mapped form) or ::1
LoopbackName(host) ==
    \/ host.name = "localhost"
    \/ /\ host.ip # NoIP
       /\ \/ SubSeq(host.ip, 1, 6) = <<0, 0, 0, 0, 0, 65535>> /\ host.ip[7] \div 256 = 127
          \/ host.ip = IPv6loopback

BadBase(r) ==
    \/ Declared(r) = ""
    \/ ~UrlParse(Declared(r)).parses
    \/ ~LoopbackName(UrlParse(Declared(r)).hostname)

\* C7: a /core/* request whose declared base is missing, does not parse or
\* names a host that is neither localhost nor a loopback address makes no
\* outbound HTTP request and no outbound WebSocket dial and upgrades
\* nothing; the gateway answers it 400 or 403 (a request the middleware has
\* turned away got 401). A request that declares http://127.0.0.1:20123 and
\* reaches the gateway goes out to 127.0.0.1:20123.
C7_LoopbackOnly ==
    last.req.route = "core" =>
        /\ BadBase(last.req) =>
            /\ last.resp.outbound = NoOutbound
            /\ ~last.resp.upgraded
            /\ last.resp.ran = "handleCoreProxy" => last.resp.status \in {400, 403}
            /\ last.resp.ran = None => last.resp.status = 401
        /\ (Declared(last.req) = "http://127.0.0.1:20123"
                /\ last.resp.ran = "handleCoreProxy") =>
            /\ last.resp.outbound.kind \in {"http", "ws"}
            /\ last.resp.outbound.host = "127.0.0.1:20123"

\* the gateway has refused http://example.com:1234
C7_Witness ==
    /\ last.req.route = "core"
    /\ Declared(last.req) = "http://example.com:1234"
    /\ last.resp.ran = "handleCoreProxy"
    /\ last.resp.status = 403
    /\ last.resp.outbound = NoOutbound

\* the token is in the store and has not expired
ValidNow(token) == token \in DOMAIN sessions /\ now <= sessions[token]

\* C8: whenever a request is served, a handler behind the middleware runs
\* (or a connection is upgraded there) only if the request's bearer token
\* is valid at that moment or the request asks for a WebSocket upgrade and
\* its query token is valid at that moment; and on /ws ServeWS runs only if
\* the query token is valid at that moment, and the connection is upgraded
\* only for a handshake.
C8_TokenRequired ==
    [][last' # last =>
        /\ (last'.req.route \in {"app", "logout", "core"}
                /\ (last'.resp.ran # None \/ last'.resp.upgraded
                        \/ last'.resp.outbound # NoOutbound)) =>
            \/ ValidNow(getBearerToken(last'.req.authorization))
            \/ last'.req.upgrade # "no" /\ ValidNow(last'.req.token)
        /\ (last'.req.route = "ws"
                /\ (last'.resp.ran # None \/ last'.resp.upgraded)) =>
            ValidNow(last'.req.token)
        /\ (last'.req.route = "ws" /\ last'.resp.upgraded) =>
            last'.req.upgrade = "handshake"]_vars

\* a private handler has run for an upgrade request that carried its token
\* in the query
C8_Witness ==
    /\ last.req.route = "app"
    /\ getBearerToken(last.req.authorization) = ""
    /\ last.req.upgrade # "no"
    /\ last.req.token \in DOMAIN sessions
    /\ last.resp.ran = "app"

\* C9: the token a login returns is in the store and validates at once, and
\* goes on validating while less than the TTL has passed and no logout has
\* deleted it; a validation made more than SessionTTL hours after the login
\* fails and leaves the token out of the store; a token that has left the
\* store never returns and no validation of it succeeds; a token a logout
\* has deleted is out of the store at once.
C9_SessionLifecycle ==
    /\ [](\A t \in revoked : t \notin DOMAIN sessions /\ ~validateToken(sessions, t, now))
    /\ [](\A t \in DOMAIN issuedAt :
            (t \notin revoked /\ now < issuedAt[t] + SessionTTL) =>
                validateToken(sessions, t, now))
    /\ [][/\ (last' # last /\ last'.resp.token # "") =>
                /\ last'.resp.token \in DOMAIN sessions'
                /\ validateToken(sessions', last'.resp.token, now')
          /\ (last' # last /\ last'.validated.called
                /\ last'.validated.token \in DOMAIN issuedAt
                /\ now > issuedAt[last'.validated.token] + SessionTTL) =>
                /\ ~last'.validated.ok
                /\ last'.validated.token \notin DOMAIN sessions'
          /\ (last' # last /\ last'.validated.called
                /\ last'.validated.token \notin DOMAIN sessions) =>
                ~last'.validated.ok
          /\ \A t \in DOMAIN issuedAt :
                t \notin DOMAIN sessions => t \notin DOMAIN sessions']_vars

\* a validation made after the TTL has failed and the token, which no
\* logout had deleted, is gone
C9_Witness ==
    /\ last.validated.called /\ ~last.validated.ok
    /\ last.validated.token \in DOMAIN issuedAt
    /\ last.validated.token \notin revoked
    /\ now > issuedAt[last.validated.token] + SessionTTL
    /\ last.validated.token \notin DOMAIN sessions

\* C10 as it is stated: a validation succeeds if and only if the token is in
\* the store and now < expiry, and from now >= expiry on it evicts the entry.
C10_StrictExpiry ==
    [][(last' # last /\ last'.validated.called) =>
        /\ last'.validated.ok <=>
              (last'.validated.token \in DOMAIN sessions
                  /\ now < sessions[last'.validated.token])
        /\ (last'.validated.token \in DOMAIN sessions
                /\ now >= sessions[last'.validated.token]) =>
              last'.validated.token \notin DOMAIN sessions']_vars

\* C10, amended: a validation succeeds if and only if the token is in the
\* store and now <= expiry; a validation at now > expiry evicts the entry,
\* and one at now <= expiry, the instant of expiry included, leaves it (a
\* logout then deletes it all the same).
C10_Expiry ==
    [][(last' # last /\ last'.validated.called) =>
        /\ last'.validated.ok <=>
              (last'.validated.token \in DOMAIN sessions
                  /\ now <= sessions[last'.validated.token])
        /\ (last'.validated.token \in DOMAIN sessions
                /\ now > sessions[last'.validated.token]) =>
              last'.validated.token \notin DOMAIN sessions'
        /\ (last'.validated.token \in DOMAIN sessions
                /\ now <= sessions[last'.validated.token]
                /\ last'.req.route # "logout") =>
              last'.validated.token \in DOMAIN sessions']_vars

\* a validation made at the very instant of expiry has succeeded
C10_Witness ==
    /\ last.validated.called /\ last.validated.ok
    /\ last.validated.token \in DOMAIN sessions
    /\ now = sessions[last.validated.token]

\* the request just served was turned away with 401 on a private route or
\* on /ws
Rejects ==
    /\ last' # last
    /\ last'.req.route \in {"app", "logout", "core", "ws"}
    /\ last'.resp.status = 401

\* what a rejected request leaves alone besides the session store
RejectLeaves ==
    /\ nclients' = nclients /\ ~last'.resp.upgraded
    /\ last'.resp.outbound = NoOutbound
    /\ UNCHANGED <<subscribers, handlers, events, issuedAt, revoked>>

\* C19 as it is stated: a request or upgrade attempt turned away with 401
\* leaves the session store, the registries and the connections as they
\* were, and creates no connection.
C19_NoSideEffects ==
    [][Rejects => (sessions' = sessions /\ RejectLeaves)]_vars

\* C19, amended: a request or upgrade attempt turned away with 401 leaves
\* the registries and the connections as they were and creates no
\* connection; it leaves the session store as it was, except that the entry
\* of the token it presented is deleted when that token is in the store and
\* past its expiry.
C19_OnlyEviction ==
    [][Rejects =>
        /\ RejectLeaves
        /\ sessions' =
              IF /\ last'.validated.called
                 /\ last'.validated.token \in DOMAIN sessions
                 /\ now > sessions[last'.validated.token]
              THEN MapDel(sessions, last'.validated.token)
              ELSE sessions]_vars

\* a handshake on /ws with an expired token was refused: no connection was
\* made, and the token's entry is gone
C19_Witness ==
    /\ last.req.route = "ws" /\ last.req.upgrade = "handshake"
    /\ last.resp.status = 401 /\ ~last.resp.upgraded
    /\ last.validated.called /\ last.validated.token \in DOMAIN issuedAt
    /\ last.validated.token \notin revoked
    /\ last.validated.token \notin DOMAIN sessions
    /\ nclients = 0

(***************************************************************************)
(* Claims about the multiplexer's connection policy.                       *)
(***************************************************************************)
\* C21: after closeEvents(), and until the page next calls EventsOn or
\* EventsEmit, no socket is created: a step that creates a socket while
\* manualClose is set is a call of the page, never a close callback or a
\* retry timer.
C21_NoRetryAfterClose ==
    [][(page.manualClose /\ page'.nsock # page.nsock) => ncalls' # ncalls]_vars

\* the n-th delay of the reconnect policy: 1000, 2000, 4000, 8000 and then
\* 10000 for ever
Delay(n) == IF n <= 4 THEN 1000 * 2 ^ (n - 1) ELSE 10000

\* C22: the delays given to the retry timer by the unexpected closes since
\* the last successful open are 1000, 2000, 4000, 8000, 10000, 10000, ...
\* in this order, and the next delay continues the sequence: it is 1000
\* after an open.
C22_BackoffDelays ==
    /\ \A i \in DOMAIN page.delays : page.delays[i] = Delay(i)
    /\ page.reconnectTimer = Delay(Len(page.delays) + 1)

\* six closes in a row without an open: the last two delays are the cap
C22_Witness ==
    /\ Len(page.delays) = 6
    /\ page.delays[5] = ReconnectCap /\ page.delays[6] = ReconnectCap

IsPrefix(a, b) == Len(a) <= Len(b) /\ SubSeq(b, 1, Len(a)) = a

\* C23: when a socket opens, every message held in the client queue is sent
\* on it, once and in the order issued, ahead of anything sent later, and
\* the queue is left empty.
C23_QueueFlushedAtOpen ==
    [][\A s \in Sockets :
         (page.readyState[s] = "CONNECTING" /\ page'.readyState[s] = "OPEN")
            => /\ page'.messageQueue = <<>>
               /\ IsPrefix(page.messageQueue, page'.sent[s])]_vars

\* the callbacks the page holds for event
CbsOf(m, event) == IF event \in DOMAIN m.handlers THEN m.handlers[event] ELSE {}

UnsubsIn(q, event) ==
    Cardinality({i \in DOMAIN q : q[i].action = "unsubscribe" /\ q[i].event = event})

RECURSIVE UnsubsSent(_, _, _)
UnsubsSent(m, event, n) ==
    IF n = 0 THEN 0 ELSE UnsubsIn(m.sent[n], event) + UnsubsSent(m, event, n - 1)

\* unsubscribe frames for event the page has handed to a socket or queued
Unsubs(m, event) == UnsubsIn(m.messageQueue, event) + UnsubsSent(m, event, MaxSockets)

\* C24: a step issues an unsubscribe frame for an event exactly when it
\* takes the event's last callback away, it issues one frame, and the
\* event's entry is then gone; so a call that leaves callbacks registered,
\* or finds none, issues no frame, and an entry never holds an empty set.
C24_UnsubscribeOnLast ==
    [][\A event \in Events :
         LET before == CbsOf(page, event)
             after == CbsOf(page', event)
             more == Unsubs(page', event) > Unsubs(page, event)
         IN /\ more <=> (before # {} /\ after = {})
            /\ more => /\ Unsubs(page', event) = Unsubs(page, event) + 1
                       /\ event \notin DOMAIN page'.handlers
            /\ event \in DOMAIN page'.handlers => page'.handlers[event] # {}]_vars

\* h2 was added to x and h1 taken away: h2 is still registered and no
\* unsubscribe frame was issued
C24_Witness ==
    /\ ncalls = 2 /\ CbsOf(page, "x") = {"h2"}
    /\ Unsubs(page, "x") = 0

\* C25: a step taken while the auth store holds no token creates no
\* socket, whether it is a call of EventsOn or EventsEmit or a retry timer.
C25_NoTokenNoSocket ==
    [][~page.token => page'.nsock = page.nsock]_vars

\* the page has called EventsOn and EventsEmit without a token: the
\* callback is registered, the message is queued, and no socket exists
C25_Witness ==
    /\ ~page.token /\ ncalls = 2
    /\ DOMAIN page.handlers # {} /\ page.messageQueue # <<>>
    /\ page.nsock = 0

(***************************************************************************)
(* Claims about the gateway.                                               *)
(***************************************************************************)
\* C26: once a pump of the tunnel has met a read or write error, both
\* connections get closed and both pumps terminate; in particular the pump
\* that reports an error does not stay blocked on errCh.
C26_TunnelTornDown ==
    (\E p \in Pumps : ppc[p] = "report")
        ~> (/\ tconn["client"] /\ tconn["backend"]
            /\ \A p \in Pumps : ppc[p] = "done")

\* both pumps have reported an error, both connections are closed, and the
\* second error is still in errCh, which nobody reads any more
C26_Witness ==
    /\ tpc = "done" /\ tconn["client"] /\ tconn["backend"]
    /\ \A p \in Pumps : ppc[p] = "done"
    /\ Len(errCh) = 1

\* the words and values the upstream sees in a forwarded request
Observed(f) ==
    UNION {Range(f.headers[n]) : n \in DOMAIN f.headers}
        \cup {f.query[n] : n \in DOMAIN f.query}

\* C27: the request made to the upstream has no coreBase, coreBearer or
\* token parameter and has every other parameter of the inbound request;
\* no header of it is one of the gateway's routing headers, and neither the
\* declared base URL nor the session token occurs anywhere in it.
C27_NoRoutingDataForwarded ==
    forwarded.kind \in {"http", "ws"} =>
        /\ DOMAIN forwarded.query \cap {"coreBase", "coreBearer", "token"} = {}
        /\ \A n \in DOMAIN inbound.query \ {"coreBase", "coreBearer", "token"} :
              n \in DOMAIN forwarded.query /\ forwarded.query[n] = inbound.query[n]
        /\ DOMAIN forwarded.headers \cap {"X-Core-Base", "X-Core-Bearer"} = {}
        /\ declaredBase(inbound) \notin Observed(forwarded)
        /\ MiddlewareToken(AsRequest(inbound)) \notin Observed(forwarded)

(***************************************************************************)
(* Claims about the registries.                                            *)
(***************************************************************************)
\* C28: no event of the subscription registry has an empty subscriber set
\* and no event of the handler registry has an empty handler map.
C28_NoEmptyEntries ==
    /\ \A event \in DOMAIN subscribers : subscribers[event] # {}
    /\ \A event \in DOMAIN handlers : DOMAIN handlers[event] # {}

\* both connections, subscribed to every event, have closed, and every
\* handler registered has been cancelled: both registries are empty again
C28_Witness ==
    /\ \A c \in Conns : events[c] = Events /\ connClosed[c]
    /\ DOMAIN subscribers = {}
    /\ \E i \in DOMAIN hlog : hlog[i].op = "off"
    /\ DOMAIN handlers = {}

(***************************************************************************)
(* Claims about ExecBackground.                                            *)
(***************************************************************************)
\* C29: every event the task emits is queued for a socket of the page,
\* whose listeners ExecBackground registered before it posted the request.
C29_NoEventMissed ==
    [][temitted' # temitted =>
         \E s \in Sockets : Len(inbox'[s]) > Len(inbox[s])]_vars

(***************************************************************************)
(* Claims about faults of the bus.                                         *)
(***************************************************************************)
\* C30: no Emit sends on a connection's queue after close() has closed it:
\* the process never ends with the panic of a send on a closed channel.
C30_NoSendOnClosed == fault # "send on closed channel"

(***************************************************************************)
(* Claims about the page and the server together.                          *)
(***************************************************************************)
\* the events the server has the page's current connection subscribed to
ServerSubs(m) == {e \in Events : m.socket \in SubsOf(subscribers, e)}

\* C31: when the page's socket is open at both ends and the server has read
\* every frame sent on it, the events the server has the connection
\* subscribed to are the events with a local callback.
C31_SubscriptionsAgree ==
    (IsOpen(page) /\ page.socket \in srvOpen /\ page.sent[page.socket] = <<>>)
        => ServerSubs(page) = DOMAIN page.handlers

\* C32: the request proxyCoreHTTP makes carries Authorization: Bearer
\* <upstream credential> when a credential was declared, and the caller's
\* session token is in no request made to the upstream, with or without a
\* declared credential.
C32_UpstreamAuthorization ==
    forwarded.kind = "http" =>
        /\ bearerOf(inbound) # "" =>
              /\ "Authorization" \in DOMAIN forwarded.headers
              /\ forwarded.headers["Authorization"] = <<"Bearer", bearerOf(inbound)>>
        /\ MiddlewareToken(AsRequest(inbound)) \notin Observed(forwarded)

\* C33 as it is stated: the target of an accepted request has the scheme
\* and the host and port of the declared base, whatever the sub-path.
C33_TargetIsBase ==
    forwarded.kind \in {"http", "ws"} =>
        /\ forwarded.target.scheme = UrlParse(declaredBase(inbound)).scheme
        /\ forwarded.target.host = UrlParse(declaredBase(inbound)).host

\* C33, amended: the target of an accepted request has the host and port
\* of the declared base, whatever the sub-path; its scheme is the base's on
\* the HTTP path and, on the WebSocket path, ws for a base with http, wss
\* for a base with https and the base's scheme otherwise.
C33_TargetHostIsBase ==
    forwarded.kind \in {"http", "ws"} =>
        /\ forwarded.target.host = UrlParse(declaredBase(inbound)).host
        /\ forwarded.kind = "http" =>
              forwarded.target.scheme = UrlParse(declaredBase(inbound)).scheme
        /\ forwarded.kind = "ws" =>
              forwarded.target.scheme =
                  (CASE UrlParse(declaredBase(inbound)).scheme = "http" -> "ws"
                     [] UrlParse(declaredBase(inbound)).scheme = "https" -> "wss"
                     [] OTHER -> UrlParse(declaredBase(inbound)).scheme)

\* a handshake for the sub-path //example.com/x was dialled at the declared
\* base https://[::1]:9443
C33_Witness ==
    /\ forwarded.kind = "ws"
    /\ inbound.sub = <<"", "", "example.com", "x">>
    /\ declaredBase(inbound) = "https://[::1]:9443"
    /\ forwarded.target.scheme = "wss" /\ forwarded.target.host = "[::1]:9443"
    /\ forwarded.target.path = <<"", "", "example.com", "x">>

\* the connections of the tunnel that exist and have not been closed
OpenTunnelConns ==
    {c \in TunnelConns :
        /\ IF c = "backend" THEN tstat.dialled ELSE tstat.upgraded
        /\ ~tconn[c]}

\* C34: the inbound connection is upgraded only after the upstream dial has
\* succeeded; when the dial fails the inbound request gets an error status
\* and is not upgraded; when the inbound upgrade fails the dialled upstream
\* connection is closed; a failed handshake leaves no connection open.
C34_HandshakeFailures ==
    /\ tstat.upgraded => tstat.dialled
    /\ (tpc = "failed" /\ ~tstat.dialled) =>
          (tstat.status >= 400 /\ ~tstat.upgraded)
    /\ (tpc = "failed" /\ tstat.dialled) => tconn["backend"]
    /\ tpc = "failed" => OpenTunnelConns = {}

\* a token that was valid is not after this step: a logout deleted it, or
\* the clock passed its expiry
Invalidated ==
    \E t \in DOMAIN sessions :
        /\ now <= sessions[t]
        /\ ~(t \in DOMAIN sessions' /\ now' <= sessions'[t])

\* C35: a step that invalidates a session, a logout or the passing of its
\* expiry, leaves every connection as it was: open, with its subscriptions,
\* its queue and its reader and writer where they were.
C35_ConnectionsOutliveSessions ==
    [][Invalidated =>
        UNCHANGED <<subscribers, clientVars, loopVars, emitVars, nclients, enq, wire>>]_vars

\* the only token issued has been deleted by a logout, and the connection
\* upgraded with it is open and subscribed, and its writer has written a
\* message of an Emit to it
C35_Witness ==
    /\ revoked = DOMAIN issuedAt /\ revoked # {} /\ DOMAIN sessions = {}
    /\ nclients = 1
    /\ ~connClosed["c1"] /\ ~closedSig["c1"]
    /\ "c1" \in SubsOf(subscribers, "x")
    /\ wire["c1"] # <<>>

(***************************************************************************)
(* Claims about streams and about Shutdown.                                *)
(***************************************************************************)
\* C36: a connect() that follows a disconnect(), with no other call
\* between them, opens a new socket, whatever came before, a disconnect()
\* before the first connect() included.
C36_ConnectAfterDisconnect ==
    [][(/\ stream'.ncalls = stream.ncalls + 1
        /\ stream'.lastCall = "connect"
        /\ stream.lastCall = "disconnect")
           => Len(stream'.readyState) = Len(stream.readyState) + 1]_vars

\* C37: however the calls of Shutdown interleave, the shutdown channel is
\* closed at most once and no call panics.
C37_ShutdownOnce == ~shut.panicked /\ shut.closes <= 1

====
